---------------------------- MODULE Spec2Model ----------------------------
(***************************************************************************)
(* A model of GooseHDF5 (src/GooseHDF5/__init__.py): path traversal with   *)
(* folding (getdatasets, getgroups, getdatapaths), node equality (equal)   *)
(* and the structural comparison of two files (compare, compare_rename).   *)
(*                                                                         *)
(* Python strings are sequences of one-character strings, so that          *)
(* str.startswith, str.split, str.strip, posixpath.join and                *)
(* posixpath.normpath are computed on characters as Python computes them.  *)
(* A file is a function from the absolute paths of its nodes to node       *)
(* records.  An optional argument (max_depth=None) is a sequence of length *)
(* at most one: << >> is None, <<d>> is the value d.                       *)
(***************************************************************************)
EXTENDS Integers, Sequences, FiniteSets, TLC

VARIABLES
    a,       \* the file passed as ``a`` (compare) or ``file`` (traversal)
    b,       \* the file passed as ``b``
    call,    \* the last call made: its name and its arguments
    ret      \* what the last call returned or raised, and the pairs of
             \* paths ``equal`` was invoked on while it ran (ret.log);
             \* for a call of equal, _equal or _equal_value its verdict

vars == <<a, b, call, ret>>

-----------------------------------------------------------------------------
(* Characters and strings                                                  *)

\* The characters that occur in the paths of the model, in code-point order.
Alphabet == <<"(", ")", ".", "/", "9", "a", "b", "c", "k", "m", "x", "y">>

Ord(c) == CHOOSE i \in 1..Len(Alphabet) : Alphabet[i] = c

SLASH == "/"

RECURSIVE StrLess(_, _)
\* Python's ``<`` on str: lexicographic by code point.
StrLess(s, t) ==
    IF t = <<>> THEN FALSE
    ELSE IF s = <<>> THEN TRUE
    ELSE IF Head(s) = Head(t) THEN StrLess(Tail(s), Tail(t))
    ELSE Ord(Head(s)) < Ord(Head(t))

\* str.startswith
startswith(s, p) == Len(p) <= Len(s) /\ SubSeq(s, 1, Len(p)) = p

\* str.endswith
endswith(s, p) == Len(p) <= Len(s) /\ SubSeq(s, Len(s) - Len(p) + 1, Len(s)) = p

RECURSIVE lstrip(_)
lstrip(s) == IF s # <<>> /\ Head(s) = SLASH THEN lstrip(Tail(s)) ELSE s

RECURSIVE rstrip(_)
rstrip(s) ==
    IF s # <<>> /\ s[Len(s)] = SLASH THEN rstrip(SubSeq(s, 1, Len(s) - 1)) ELSE s

\* str.strip("/")
strip(s) == rstrip(lstrip(s))

RECURSIVE split(_)
\* str.split("/"): the pieces between the slashes (empty pieces kept).
split(s) ==
    IF \A i \in 1..Len(s) : s[i] # SLASH THEN <<s>>
    ELSE LET i == CHOOSE k \in 1..Len(s) :
                      s[k] = SLASH /\ \A j \in 1..(k - 1) : s[j] # SLASH
         IN  <<SubSeq(s, 1, i - 1)>> \o split(SubSeq(s, i + 1, Len(s)))

\* str.count("/"), which is len(path.split("/")) - 1
count(s) == Cardinality({i \in 1..Len(s) : s[i] = SLASH})

\* len(list(filter(None, root.split("/")))): the number of non-empty pieces
count_components(s) == Len(SelectSeq(split(s), LAMBDA c : c # <<>>))

\* path.split(symbol)[0]: the part of path before the first occurrence of symbol
\* (all of path when symbol does not occur; symbol is never empty here).
split_first(s, symbol) ==
    LET occ == {i \in 1..(Len(s) - Len(symbol) + 1) :
                    SubSeq(s, i, i + Len(symbol) - 1) = symbol}
    IN  IF occ = {} THEN s
        ELSE SubSeq(s, 1, (CHOOSE i \in occ : \A j \in occ : i <= j) - 1)

\* posixpath.join(p, q) of two components
posixpath_join2(p, q) ==
    IF q # <<>> /\ Head(q) = SLASH THEN q
    ELSE IF p = <<>> \/ p[Len(p)] = SLASH THEN p \o q
    ELSE p \o <<SLASH>> \o q

RECURSIVE posixpath_join(_)
\* posixpath.join(*lst) of a non-empty list
posixpath_join(lst) ==
    IF Len(lst) = 1 THEN lst[1]
    ELSE posixpath_join(
            <<posixpath_join2(lst[1], lst[2])>> \o SubSeq(lst, 3, Len(lst)))

RECURSIVE concat_comps(_)
concat_comps(comps) ==
    IF comps = <<>> THEN <<>>
    ELSE <<SLASH>> \o Head(comps) \o concat_comps(Tail(comps))

\* posixpath.normpath of an absolute path with no ".." component: empty and
\* "." components are dropped.  (A path that starts with exactly two slashes
\* keeps them in Python; no path of the model does.)
normpath(s) ==
    LET comps == SelectSeq(split(s), LAMBDA c : c # <<>> /\ c # <<".">>)
    IN  IF comps = <<>> THEN <<SLASH>> ELSE concat_comps(comps)

abspath(path) == normpath(posixpath_join2(<<SLASH>>, path))

\* join(*args, root=root)
join(args, root) ==
    LET lst == [i \in 1..Len(args) |-> IF i = 1 THEN args[i] ELSE strip(args[i])]
    IN  IF root THEN posixpath_join(<<(<<SLASH>>)>> \o lst)
        ELSE posixpath_join(lst)

\* posixpath.split(path)[0] of an absolute, normalized path
dirname(path) ==
    LET i == CHOOSE k \in 1..Len(path) :
                 path[k] = SLASH /\ \A j \in (k + 1)..Len(path) : path[j] # SLASH
    IN  IF i = 1 THEN <<SLASH>> ELSE SubSeq(path, 1, i - 1)

\* posixpath.split(path)[1]
basename(path) ==
    LET i == CHOOSE k \in 1..Len(path) :
                 path[k] = SLASH /\ \A j \in (k + 1)..Len(path) : path[j] # SLASH
    IN  SubSeq(path, i + 1, Len(path))

RECURSIVE SortSet(_)
\* sorted(S) for a set of strings
SortSet(S) ==
    IF S = {} THEN <<>>
    ELSE LET m == CHOOSE x \in S : \A y \in S : y = x \/ StrLess(x, y)
         IN  <<m>> \o SortSet(S \ {m})

Range(seq) == {seq[i] : i \in 1..Len(seq)}

Flatten(seqs) ==
    LET RECURSIVE F(_)
        F(i) == IF i > Len(seqs) THEN <<>> ELSE seqs[i] \o F(i + 1)
    IN  F(1)

-----------------------------------------------------------------------------
(* Values, nodes and files (what h5py holds)                               *)

\* A value is a Python str (py = "str", data = the code numbers of its
\* characters) or a numpy scalar or array (py = "ndarray") with its dtype,
\* shape and flattened data.  Numbers are held in units of 10^-9, so that 1 is
\* 1000000000 and a float may differ from it by less than numpy's tolerances.
Str(chars) ==
    [py |-> "str", dtype |-> "str", shape |-> <<>>,
     data |-> [i \in 1..Len(chars) |-> Ord(chars[i])]]
Scalar(dtype, x) == [py |-> "ndarray", dtype |-> dtype, shape |-> <<>>, data |-> <<x>>]
Array(dtype, xs) == [py |-> "ndarray", dtype |-> dtype, shape |-> <<Len(xs)>>, data |-> xs]
NoValue == [py |-> "none", dtype |-> "none", shape |-> <<>>, data |-> <<>>]

IntVal(n) == Scalar("int", n * 1000000000)
FloatVal(n) == Scalar("float", n * 1000000000)

\* ndarray.size: the product of the shape
size(v) ==
    LET RECURSIVE P(_)
        P(i) == IF i > Len(v.shape) THEN 1 ELSE v.shape[i] * P(i + 1)
    IN  P(1)

NoAttrs == [k \in {} |-> NoValue]
Attrs(k, v) == [n \in {k} |-> v]

Group(attrs) == [kind |-> "Group", attrs |-> attrs, value |-> NoValue]
Dataset(value, attrs) == [kind |-> "Dataset", attrs |-> attrs, value |-> value]

Root == <<SLASH>>

isGroup(file, path) == path \in DOMAIN file /\ file[path].kind = "Group"
isDataset(file, path) == path \in DOMAIN file /\ file[path].kind = "Dataset"

\* ``path in file``
exists(file, path) == abspath(path) \in DOMAIN file

\* g.keys() of the group at ``prefix``: the names of its members, which HDF5
\* iterates in name order.
keys(file, prefix) ==
    LET members == {p \in DOMAIN file : p # Root /\ dirname(p) = prefix}
        sorted == SortSet(members)
    IN  [i \in 1..Len(sorted) |-> basename(sorted[i])]

\* A tree is well formed when the root is a group and every other node lies
\* in a group.
WellFormed(file) ==
    /\ isGroup(file, Root)
    /\ \A p \in DOMAIN file : p # Root => isGroup(file, dirname(p))

\* What a generator or a call produced: the paths it yielded before it ended,
\* and the exception that ended it ("" when it ended normally).
Yield(out, err) == [out |-> out, err |-> err]

-----------------------------------------------------------------------------
(* getdatasets and its four specializations                                *)

RECURSIVE _getpaths_iterator(_, _)
_getpaths_iterator(file, prefix) ==
    LET ks == keys(file, prefix)
    IN  Flatten([i \in 1..Len(ks) |->
            LET path == join(<<prefix, ks[i]>>, FALSE)
            IN  IF isDataset(file, path) THEN <<path>>
                ELSE _getpaths_iterator(file, path)])

\* The tail every specialization shares: file[root] raises KeyError when root
\* is absent; a Dataset root is yielded and then handed to the iterator,
\* whose g.keys() a Dataset does not have.
getpaths_root(file, root, walk) ==
    IF root \notin DOMAIN file THEN Yield(<<>>, "KeyError")
    ELSE IF isDataset(file, root) THEN Yield(<<root>>, "AttributeError")
    ELSE Yield(walk, "")

_getpaths(file, root) == getpaths_root(file, root, _getpaths_iterator(file, root))

RECURSIVE _getpaths_fold_iterator(_, _, _, _)
_getpaths_fold_iterator(file, prefix, fold, fold_symbol) ==
    LET ks == keys(file, prefix)
    IN  Flatten([i \in 1..Len(ks) |->
            LET path == join(<<prefix, ks[i]>>, FALSE)
            IN  IF isDataset(file, path) THEN <<path>>
                ELSE IF path \in Range(fold) THEN <<path \o fold_symbol>>
                ELSE _getpaths_fold_iterator(file, path, fold, fold_symbol)])

_getpaths_fold(file, root, fold, fold_symbol) ==
    getpaths_root(file, root, _getpaths_fold_iterator(file, root, fold, fold_symbol))

RECURSIVE _getpaths_fold_maxdepth_iterator(_, _, _, _, _)
_getpaths_fold_maxdepth_iterator(file, prefix, fold, max_depth, fold_symbol) ==
    LET ks == keys(file, prefix)
    IN  Flatten([i \in 1..Len(ks) |->
            LET path == join(<<prefix, ks[i]>>, FALSE)
            IN  IF isDataset(file, path) THEN <<path>>
                ELSE IF count(path) >= max_depth THEN <<path \o fold_symbol>>
                ELSE IF path \in Range(fold) THEN <<path \o fold_symbol>>
                ELSE _getpaths_fold_maxdepth_iterator(
                        file, path, fold, max_depth, fold_symbol)])

_getpaths_fold_maxdepth(file, root, fold, max_depth, fold_symbol) ==
    getpaths_root(file, root,
        _getpaths_fold_maxdepth_iterator(file, root, fold, max_depth, fold_symbol))

RECURSIVE _getpaths_maxdepth_iterator(_, _, _, _)
_getpaths_maxdepth_iterator(file, prefix, max_depth, fold_symbol) ==
    LET ks == keys(file, prefix)
    IN  Flatten([i \in 1..Len(ks) |->
            LET path == join(<<prefix, ks[i]>>, FALSE)
            IN  IF isDataset(file, path) THEN <<path>>
                ELSE IF count(path) >= max_depth
                THEN IF Len(_getpaths_maxdepth_iterator(
                                file, path, max_depth + 1, fold_symbol)) > 0
                     THEN <<path \o fold_symbol>>
                     ELSE <<path>>
                ELSE _getpaths_maxdepth_iterator(file, path, max_depth, fold_symbol)])

\* The depth limit applied as _getpaths_fold_maxdepth applies it: the marker
\* whatever the group holds.
_getpaths_maxdepth_unconditional(file, root, max_depth, fold_symbol) ==
    _getpaths_fold_maxdepth(file, root, <<>>, max_depth, fold_symbol)

_getpaths_maxdepth(file, root, max_depth, fold_symbol) ==
    getpaths_root(file, root,
        _getpaths_maxdepth_iterator(file, root, max_depth, fold_symbol))

\* ``if max_depth``: neither None nor 0
truthy_depth(max_depth) == max_depth # <<>> /\ max_depth[1] # 0

\* The fold list as getdatasets and getgroups normalise it (fold is a list here).
normalise_fold(root, fold) ==
    [i \in 1..Len(fold) |->
        LET f == abspath(fold[i])
        IN  IF startswith(f, root) THEN f ELSE join(<<root, f>>, FALSE)]

\* The choice getdatasets makes among the four specializations, once root and
\* fold are normalised.
getdatasets_from(file, root, max_depth, fold, fold_symbol) ==
    IF truthy_depth(max_depth) /\ fold # <<>>
    THEN _getpaths_fold_maxdepth(file, root, fold, max_depth[1], fold_symbol)
    ELSE IF truthy_depth(max_depth)
    THEN _getpaths_maxdepth(file, root, max_depth[1], fold_symbol)
    ELSE IF fold # <<>>
    THEN _getpaths_fold(file, root, fold, fold_symbol)
    ELSE _getpaths(file, root)

\* getdatasets(file, root, max_depth, fold, fold_symbol); max_depth is << >>
\* (None) or <<d>>, fold is << >> (None) or the list of folded groups.
getdatasets(file, root_, max_depth, fold_, fold_symbol) ==
    getdatasets_from(file, abspath(root_), max_depth,
                     normalise_fold(abspath(root_), fold_), fold_symbol)

-----------------------------------------------------------------------------
(* getgroups and getdatapaths                                              *)

\* list(set(keys)): the distinct entries.  Python leaves their order
\* unspecified; the model lists them sorted, and enumerates every order
\* (list_set_orders) where the order decides what the code does next.
list_set(S) == SortSet(S)

RECURSIVE list_set_orders(_)
list_set_orders(S) ==
    IF S = {} THEN {<<>>}
    ELSE UNION {{<<x>> \o rest : rest \in list_set_orders(S \ {x})} : x \in S}

RECURSIVE visit_groups(_, _)
\* group.visit(...) keeping the groups: every group below ``prefix``,
\* parents before their members, members in name order.
visit_groups(file, prefix) ==
    LET ks == keys(file, prefix)
    IN  Flatten([i \in 1..Len(ks) |->
            LET path == join(<<prefix, ks[i]>>, FALSE)
            IN  IF isGroup(file, path) THEN <<path>> \o visit_groups(file, path)
                ELSE <<>>])

\* ``if has_attrs: keys = [key for key in keys if len(file[key].attrs) > 0]``
getgroups_has_attrs(keys_, file, has_attrs) ==
    IF has_attrs THEN SelectSeq(keys_, LAMBDA key : DOMAIN file[key].attrs # {})
    ELSE keys_

\* The max_depth step of getgroups: a path deeper than n + max_depth becomes
\* its ancestor at that depth followed by fold_symbol.
getgroups_maxdepth(keys_, root, max_depth, fold_symbol) ==
    IF max_depth = <<>> THEN keys_
    ELSE list_set({IF count(path) > count_components(root) + max_depth[1]
                   THEN posixpath_join(
                            <<Root>> \o SubSeq(split(path), 1,
                                               count_components(root) + max_depth[1] + 1))
                          \o fold_symbol
                   ELSE path : path \in Range(keys_)})

\* The fold step of getgroups: a path that starts with a fold entry f becomes
\* f + fold_symbol (the last such f of the list wins).
getgroups_fold(keys_, fold, fold_symbol) ==
    IF fold = <<>> THEN keys_
    ELSE list_set({IF \E j \in 1..Len(fold) : startswith(path, fold[j])
                   THEN fold[CHOOSE j \in 1..Len(fold) :
                               /\ startswith(path, fold[j])
                               /\ \A k \in (j + 1)..Len(fold) : ~startswith(path, fold[k])]
                          \o fold_symbol
                   ELSE path : path \in Range(keys_)})

\* getgroups once root and fold are normalised
getgroups_from(file, root, has_attrs, max_depth, fold, fold_symbol) ==
    IF root \notin DOMAIN file THEN Yield(<<>>, "KeyError")
    ELSE IF isDataset(file, root) THEN Yield(<<>>, "AttributeError")
    ELSE Yield(getgroups_fold(
                  getgroups_maxdepth(
                      getgroups_has_attrs(visit_groups(file, root), file, has_attrs),
                      root, max_depth, fold_symbol),
                  fold, fold_symbol), "")

\* getgroups(file, root, has_attrs, max_depth, fold, fold_symbol)
getgroups(file, root_, has_attrs, max_depth, fold_, fold_symbol) ==
    getgroups_from(file, abspath(root_), has_attrs, max_depth,
                   normalise_fold(abspath(root_), fold_), fold_symbol)

\* ``list(set(list(getdatasets(...)) + list(getgroups(...))))``
getdatapaths_ret(ds, gs) ==
    IF ds.err # "" THEN Yield(<<>>, ds.err)
    ELSE IF gs.err # "" THEN Yield(<<>>, gs.err)
    ELSE Yield(list_set(Range(ds.out \o gs.out)), "")

\* getdatapaths: the datasets and the groups that have attributes
getdatapaths(file, root, max_depth, fold, fold_symbol) ==
    getdatapaths_ret(getdatasets(file, root, max_depth, fold, fold_symbol),
                     getgroups(file, root, TRUE, max_depth, fold, fold_symbol))

-----------------------------------------------------------------------------
(* _equal_value, _equal and equal                                          *)
(* A verdict is "True", "False" or the name of the exception raised.       *)

Bool(x) == IF x THEN "True" ELSE "False"

Abs(x) == IF x < 0 THEN -x ELSE x

\* numpy.isclose(x, y) with the defaults atol = 1e-8 and rtol = 1e-5, on
\* numbers held in units of 10^-9: |x - y| <= atol + rtol * |y|.
isclose(x, y) ==
    LET d == Abs(x - y) - 10
    IN  d <= 0 \/ d <= Abs(y) \div 100000

isnumeric_dtype(dtype) == dtype \in {"float", "int", "bool"}

\* numpy.allclose(a, b) of two values of the same shape
allclose(va, vb) ==
    IF ~(isnumeric_dtype(va.dtype) /\ isnumeric_dtype(vb.dtype)) THEN "TypeError"
    ELSE Bool(\A i \in 1..Len(va.data) : isclose(va.data[i], vb.data[i]))

\* numpy.all(numpy.equal(a, b)) of two values of the same shape
allequal_elements(va, vb) == Bool(\A i \in 1..Len(va.data) : va.data[i] = vb.data[i])

\* The floating branch with no regard for the type of b
_equal_value_floating_alike(va, vb, close) == allclose(va, vb)

\* ``if np.issubdtype(a.dtype, np.floating):`` of _equal_value
_equal_value_floating(va, vb, close) ==
    IF close THEN allclose(va, vb)
    ELSE IF vb.dtype # "float" THEN "False"
    ELSE allclose(va, vb)

\* The integer branch with closeness whatever close is
_equal_value_integer_close(va, vb, close) == allclose(va, vb)

\* ``if np.issubdtype(a.dtype, np.integer):`` of _equal_value
_equal_value_integer(va, vb, close) ==
    IF close THEN allclose(va, vb)
    ELSE IF vb.dtype # "int" THEN "False"
    ELSE allequal_elements(va, vb)

\* _equal_value(a, b, close): b.size of a str raises AttributeError
_equal_value(va, vb, close) ==
    IF va.py = "str" THEN Bool(vb.py = "str" /\ va.data = vb.data)
    ELSE IF vb.py = "str" THEN "AttributeError"
    ELSE IF size(va) # size(vb) THEN "False"
    ELSE IF va.shape # vb.shape THEN "False"
    ELSE IF va.dtype = "float" THEN _equal_value_floating(va, vb, close)
    ELSE IF va.dtype = "int" THEN _equal_value_integer(va, vb, close)
    ELSE IF va.dtype = "bool"
    THEN IF vb.dtype # "bool" THEN "False"
         ELSE allequal_elements(va, vb)
    ELSE IF size(va) = 1 THEN Bool(va.data = vb.data)
    ELSE IF close THEN allclose(va, vb)
    ELSE allequal_elements(va, vb)

\* One pass of ``for key in a.attrs`` that did not return before its value
\* test: v is the verdict of _equal_value, rest what the later keys give.
attrs_verdict(v, rest) == IF v # "True" THEN v ELSE rest

RECURSIVE _equal_attrs_loop(_, _, _, _, _, _)
\* ``for key in a.attrs`` of _equal from its i-th key on: the verdict the loop
\* returns or raises, or "True" when it runs to its end.  A str attribute has
\* no dtype.
_equal_attrs_loop(na, nb, ks, i, matching_dtype, shallow_close) ==
    IF i > Len(ks) THEN "True"
    ELSE IF ks[i] \notin DOMAIN nb.attrs THEN "False"
    ELSE IF matching_dtype /\ (na.attrs[ks[i]].py = "str" \/ nb.attrs[ks[i]].py = "str")
    THEN "AttributeError"
    ELSE IF matching_dtype /\ na.attrs[ks[i]].dtype # nb.attrs[ks[i]].dtype
    THEN "False"
    ELSE IF shallow_close[1] THEN "Return True"
    ELSE attrs_verdict(
            _equal_value(na.attrs[ks[i]], nb.attrs[ks[i]], shallow_close[2]),
            _equal_attrs_loop(na, nb, ks, i + 1, matching_dtype, shallow_close))

\* _equal past its attrs block, on the two nodes themselves
_equal_nodes(na, nb, matching_dtype, shallow, close) ==
    IF na.kind = "Group" /\ nb.kind = "Group" THEN "True"
    ELSE IF na.kind # "Dataset" \/ nb.kind # "Dataset" THEN "OSError"
    ELSE IF matching_dtype /\ na.value.dtype # nb.value.dtype THEN "False"
    ELSE IF shallow THEN "True"
    ELSE _equal_value(na.value, nb.value, close)

\* _equal given what its first attrs loop came to: "Return True" is the
\* ``if shallow: return True`` inside the loop.
_equal_after_attrs(first, na, nb, matching_dtype, shallow, close) ==
    IF first = "Return True" THEN "True"
    ELSE IF first # "True" THEN first
    ELSE IF \E key \in DOMAIN nb.attrs : key \notin DOMAIN na.attrs THEN "False"
    ELSE _equal_nodes(na, nb, matching_dtype, shallow, close)

\* _equal(a, b, attrs, matching_dtype, shallow, close) on two nodes
_equal(na, nb, attrs, matching_dtype, shallow, close) ==
    IF attrs
    THEN _equal_after_attrs(
            _equal_attrs_loop(na, nb, SortSet(DOMAIN na.attrs), 1,
                              matching_dtype, <<shallow, close>>),
            na, nb, matching_dtype, shallow, close)
    ELSE _equal_nodes(na, nb, matching_dtype, shallow, close)

\* ``if not dest_dataset: dest_dataset = source_dataset``; dest_dataset is
\* << >> (None) or <<path>>, and ``not`` holds of None and of the empty string.
dest_or_source(source_dataset, dest_dataset) ==
    IF dest_dataset = <<>> \/ dest_dataset[1] = <<>>
    THEN source_dataset ELSE dest_dataset[1]

\* equal past its first line
equal_from(source, dest, source_dataset, dest_dataset, opts) ==
    IF ~exists(source, source_dataset) THEN "OSError"
    ELSE IF ~exists(dest, dest_dataset) THEN "OSError"
    ELSE _equal(source[abspath(source_dataset)], dest[abspath(dest_dataset)],
                opts.attrs, opts.matching_dtype, opts.shallow, opts.close)

\* equal(source, dest, source_dataset, dest_dataset, root=None, **opts)
equal(source, dest, source_dataset, dest_dataset, opts) ==
    equal_from(source, dest, source_dataset,
               dest_or_source(source_dataset, dest_dataset), opts)

-----------------------------------------------------------------------------
(* _compare_paths, compare and compare_rename                              *)

\* uuid.uuid4() as a string: characters that no path of a file holds.
Uuid == <<"9">>

\* symbol = "/..." + str(uuid.uuid4())
Symbol == <<SLASH, ".", ".", ".">> \o Uuid

\* A list of paths handed to compare: a Python list, or a numpy array
\* (which has no ``remove``).
PyList(items) == [items |-> items, ndarray |-> FALSE]
NdArray(items) == [items |-> items, ndarray |-> TRUE]

\* list.remove(x): the list without the first occurrence of x
list_remove(lst, x) ==
    LET i == CHOOSE k \in 1..Len(lst) : lst[k] = x /\ \A j \in 1..(k - 1) : lst[j] # x
    IN  SubSeq(lst, 1, i - 1) \o SubSeq(lst, i + 1, Len(lst))

RECURSIVE remove_folded(_, _, _, _)
\* ``for path in paths: if path in fold: paths.remove(path); folded.append(...)``
\* from position i on.  The loop walks by index while the list shrinks under
\* it, so the entry after a removed one is stepped over.
remove_folded(paths, i, fold, folded) ==
    IF i > Len(paths.items) THEN [paths |-> paths, folded |-> folded, err |-> ""]
    ELSE LET path == paths.items[i]
         IN  IF path \in Range(fold)
             THEN IF paths.ndarray
                  THEN [paths |-> paths, folded |-> folded, err |-> "AttributeError"]
                  ELSE remove_folded(PyList(list_remove(paths.items, path)), i + 1, fold,
                                     Append(folded, split_first(path, Symbol)))
             ELSE remove_folded(paths, i + 1, fold, folded)

\* The orders list(set(...)) may give the paths r that getdatapaths returned
list_set_yields(r) ==
    IF r.err # "" THEN {r}
    ELSE {Yield(o, "") : o \in list_set_orders(Range(r.out))}

\* The default path lists read with getdatapaths whatever attrs is.
default_paths_with_groups(file, attrs, max_depth, fold) ==
    list_set_yields(getdatapaths(file, Root, max_depth, fold, Symbol))

\* The default path lists of _compare_paths for one file: every order
\* list(set(...)) may give with attrs, the traversal order without.
default_paths(file, attrs, max_depth, fold) ==
    IF attrs
    THEN list_set_yields(getdatapaths(file, Root, max_depth, fold, Symbol))
    ELSE {getdatasets(file, Root, max_depth, fold, Symbol)}

\* The list of one file as _compare_paths starts from it: the one given, or
\* one of the default lists.
read_paths(file, given, attrs, max_depth, fold) ==
    IF given # <<>> THEN {Yield(given[1], "")}
    ELSE {Yield(PyList(r.out), r.err) : r \in default_paths(file, attrs, max_depth, fold)}

\* ``fold = [join(f, symbol, root=True) for f in fold]``
fold_markers(fold) == [i \in 1..Len(fold) |-> join(<<fold[i], Symbol>>, TRUE)]

\* The list is handed on sorted unless it was given: every later use of it
\* is insensitive to its order (numpy's set routines sort, the rename loops
\* test membership), so that only the removal loop sees the order.
handed_on(r, given) ==
    [r EXCEPT !.paths.items = IF given # <<>> THEN @ ELSE SortSet(Range(@))]

\* ``if fold:`` and the removal loop of _compare_paths on the list l
fold_side(l, given, fold) ==
    IF l.err # "" THEN [paths |-> PyList(<<>>), folded |-> <<>>, err |-> l.err]
    ELSE IF fold = <<>> THEN handed_on([paths |-> l.out, folded |-> <<>>, err |-> ""], given)
    ELSE handed_on(remove_folded(l.out, 1, fold_markers(fold), <<>>), given)

\* _compare_paths for one file's list: the list read (or given), then the
\* removal of the fold markers.
compare_paths_side(file, given, attrs, max_depth, fold) ==
    {fold_side(l, given, fold) : l \in read_paths(file, given, attrs, max_depth, fold)}

\* What _compare_paths returns from the two sides; with alias the two lists
\* are one object, which both loops have worked on.
compare_paths_ret(sa, sb, alias) ==
    [err |-> IF sa.err # "" THEN sa.err ELSE sb.err,
     paths_a |-> IF alias THEN sb.paths ELSE sa.paths,
     paths_b |-> sb.paths,
     fold_a |-> sa.folded,
     fold_b |-> sb.folded]

\* The second list of _compare_paths once the first is sa.
compare_paths_b(fb, sa, paths_b, alias, attrs, max_depth, fold) ==
    {compare_paths_ret(sa, sb, alias) :
        sb \in compare_paths_side(fb, IF alias THEN <<sa.paths>> ELSE paths_b,
                                  attrs, max_depth, fold)}

\* _compare_paths(a, b, paths_a, paths_b, attrs, max_depth, fold): the set of
\* its possible outcomes.  paths_a and paths_b are << >> (None) or <<list>>;
\* ``if paths_b is None and paths_a is not None: paths_b = paths_a``.
_compare_paths(fa, fb, paths_a, paths_b, attrs, max_depth, fold) ==
    UNION {compare_paths_b(fb, sa, paths_b, paths_b = <<>> /\ paths_a # <<>>,
                           attrs, max_depth, fold)
           : sa \in compare_paths_side(fa, paths_a, attrs, max_depth, fold)}

\* setdiff1d with its arguments exchanged
setdiff1d_swapped(x, y) == SortSet(Range(y) \ Range(x))

\* setdiff1d taken for the symmetric difference
setdiff1d_symmetric(x, y) == SortSet((Range(x) \ Range(y)) \cup (Range(y) \ Range(x)))

\* numpy.setdiff1d(x, y): the sorted distinct entries of x that are not in y
setdiff1d(x, y) == SortSet(Range(x) \ Range(y))

\* numpy.intersect1d(x, y): the sorted distinct entries common to x and y
intersect1d(x, y) == SortSet(Range(x) \cap Range(y))

\* The keys of the dictionary compare returns.
Keys == {"->", "<-", "!=", "=="}

EmptyResult == [k \in Keys |-> <<>>]

\* One pass of the loop over the pairs: v is what equal returned or raised on
\* the i-th pair.
equal_verdict(acc, pair, i, v) ==
    IF v = "True" THEN [acc EXCEPT !.eq = Append(@, i), !.log = Append(@, pair)]
    ELSE IF v = "False" THEN [acc EXCEPT !.ne = Append(@, i), !.log = Append(@, pair)]
    ELSE [acc EXCEPT !.err = v, !.log = Append(@, pair)]

RECURSIVE equal_loop(_, _, _, _, _, _)
\* ``for path_a, path_b in pairs: if not equal(...): ne.append else eq.append``
\* from the i-th pair on; acc holds the places of the pairs in the two lists,
\* the pairs equal was called on, and the exception that ended the loop.
equal_loop(fa, fb, pairs, i, opts, acc) ==
    IF i > Len(pairs) \/ acc.err # "" THEN acc
    ELSE equal_loop(fa, fb, pairs, i + 1, opts,
            equal_verdict(acc, pairs[i], i,
                          equal(fa, fb, pairs[i][1], <<pairs[i][2]>>, opts)))

EmptyLoop == [eq |-> <<>>, ne |-> <<>>, log |-> <<>>, err |-> ""]

\* A call that raised err: nothing is returned.
Raised(err, log) ==
    [err |-> err, log |-> log, dict |-> EmptyResult, folded |-> <<>>,
     sel_a |-> <<>>, sel_b |-> <<>>]

\* The entries of inboth at the places idx
at_places(inboth, idx) == [j \in 1..Len(idx) |-> inboth[idx[j]]]

\* ``ret["??"] = [str(i) for i in np.unique(fold_a + fold_b)]``
list_folded_ret(list_folded, cp) ==
    IF list_folded THEN <<SortSet(Range(cp.fold_a \o cp.fold_b))>> ELSE <<>>

\* What compare returns once its loop over inboth has ended as loop
compare_ret(cp, inboth, loop, list_folded) ==
    IF loop.err # "" THEN Raised(loop.err, loop.log)
    ELSE [err |-> "",
          log |-> loop.log,
          sel_a |-> cp.paths_a.items,
          sel_b |-> cp.paths_b.items,
          dict |-> [k \in Keys |->
                      IF k = "<-" THEN setdiff1d(cp.paths_b.items, cp.paths_a.items)
                      ELSE IF k = "->" THEN setdiff1d(cp.paths_a.items, cp.paths_b.items)
                      ELSE IF k = "!=" THEN at_places(inboth, loop.ne)
                      ELSE at_places(inboth, loop.eq)],
          folded |-> list_folded_ret(list_folded, cp)]

\* The paths of inboth, each paired with itself
with_itself(inboth) == [i \in 1..Len(inboth) |-> <<inboth[i], inboth[i]>>]

\* The body of compare once _compare_paths has returned cp: the three numpy
\* set operations, the two exclusive lists, the loop over the common paths.
compare_body(fa, fb, cp, opts, list_folded) ==
    IF cp.err # "" THEN Raised(cp.err, <<>>)
    ELSE compare_ret(cp, intersect1d(cp.paths_a.items, cp.paths_b.items),
                     equal_loop(fa, fb,
                                with_itself(intersect1d(cp.paths_a.items, cp.paths_b.items)),
                                1, opts, EmptyLoop),
                     list_folded)

\* ``opts = dict(attrs=..., matching_dtype=..., shallow=..., close=...)``
equal_opts(args) ==
    [attrs |-> args.attrs, matching_dtype |-> args.matching_dtype,
     shallow |-> args.shallow, close |-> args.close]

\* compare(a, b, paths_a, paths_b, attrs, matching_dtype, shallow,
\* only_datasets, max_depth, fold, list_folded, close): its possible outcomes.
\* args carries the keyword arguments.
compare(fa, fb, paths_a, paths_b, args) ==
    {compare_body(fa, fb, cp, equal_opts(args), args.list_folded) :
        cp \in _compare_paths(fa, fb, paths_a, paths_b,
                              IF args.only_datasets THEN FALSE ELSE args.attrs,
                              args.max_depth, args.fold)}

EmptyRenamed == [k \in {"!=", "=="} |-> <<>>]

\* What compare_rename returns or raises: the outcome c of the primary
\* comparison, the two dictionaries of the renamed paths, and the two path
\* lists _compare_paths gave it.
WithRenamed(c, ret_a, ret_b, cp) ==
    [err |-> c.err, log |-> c.log, dict |-> c.dict, folded |-> c.folded,
     sel_a |-> c.sel_a, sel_b |-> c.sel_b,
     ret_a |-> ret_a, ret_b |-> ret_b,
     paths_a |-> cp.paths_a.items, paths_b |-> cp.paths_b.items]

NoPaths == [paths_a |-> PyList(<<>>), paths_b |-> PyList(<<>>)]

\* The outcome c of compare alone, in the shape of compare_rename's: the two
\* dictionaries of the renamed paths are empty.
NothingRenamed(c) ==
    WithRenamed(c, EmptyRenamed, EmptyRenamed,
                [paths_a |-> PyList(c.sel_a), paths_b |-> PyList(c.sel_b)])

\* The rename patterns of the model are literal characters and capture
\* groups "(...)".  What such a pattern matches: its characters without the
\* parentheses.
re_literal(pattern) == SelectSeq(pattern, LAMBDA c : c \notin {"(", ")"})

RECURSIVE re_group_end(_, _, _)
\* The place of the ")" that closes the group opened before place i, depth
\* groups being open inside it.
re_group_end(pattern, i, depth) ==
    IF i > Len(pattern) THEN i
    ELSE IF pattern[i] = "(" THEN re_group_end(pattern, i + 1, depth + 1)
    ELSE IF pattern[i] = ")"
    THEN IF depth = 0 THEN i ELSE re_group_end(pattern, i + 1, depth - 1)
    ELSE re_group_end(pattern, i + 1, depth)

\* The place of the first "(" of a pattern that has one
re_group_start(pattern) ==
    CHOOSE i \in 1..Len(pattern) :
        pattern[i] = "(" /\ \A j \in 1..(i - 1) : pattern[j] # "("

\* re.match(rf"({pattern_a})(.*)", path_a)
re_match(pattern_a, path_a) == startswith(path_a, re_literal(pattern_a))

\* Group 2 of rf"({pattern_a})(.*)" on a path it matches: groups are numbered
\* by their opening parenthesis, so that it is the first group of pattern_a
\* when pattern_a has one, and the (.*) only when it has none.
re_group2(pattern_a, path_a) ==
    IF "(" \in Range(pattern_a)
    THEN re_literal(SubSeq(pattern_a, re_group_start(pattern_a) + 1,
                           re_group_end(pattern_a, re_group_start(pattern_a) + 1, 0) - 1))
    ELSE SubSeq(path_a, Len(pattern_a) + 1, Len(path_a))

\* re.sub(rf"({pattern_a})(.*)", rf"{pattern_b}\2", path_a) on a path that
\* re.match matches: the match starts the path and (.*) takes the rest of it.
re_sub(pattern_a, pattern_b, path_a) == pattern_b \o re_group2(pattern_a, path_a)

\* The pairs the rename list resolves to, given the two path lists.
rename_pairs(rename, paths_a, paths_b, regex) ==
    IF ~regex THEN rename
    ELSE Flatten([i \in 1..Len(rename) |->
            Flatten([j \in 1..Len(paths_a) |->
                IF /\ re_match(rename[i][1], paths_a[j])
                   /\ re_sub(rename[i][1], rename[i][2], paths_a[j]) \in Range(paths_b)
                THEN << <<paths_a[j], re_sub(rename[i][1], rename[i][2], paths_a[j])>> >>
                ELSE <<>>])])

\* The presence test left out: no literal pair raises.
renamed_paths_unchecked(rename, paths_a, paths_b) == TRUE

\* ``if path_a not in paths_a or path_b not in paths_b: raise OSError`` over
\* the literal pairs: TRUE when no pair raises.
renamed_paths_present(rename, paths_a, paths_b) ==
    \A i \in 1..Len(rename) :
        rename[i][1] \in Range(paths_a) /\ rename[i][2] \in Range(paths_b)

\* keep with the mask dropped: every path stays in the primary comparison.
keep_all(paths, renamed) == NdArray(paths)

\* numpy.array(paths)[~numpy.in1d(paths, renamed)]
keep(paths, renamed) == NdArray(SelectSeq(paths, LAMBDA p : p \notin renamed))

\* rename_a (side 1) and rename_b (side 2)
renamed_side(pairs, side) == {pairs[i][side] : i \in 1..Len(pairs)}

\* The paths of one side of the pairs at the places idx
renamed_at(pairs, idx, side) == [j \in 1..Len(idx) |-> pairs[idx[j]][side]]

\* What compare_rename returns once the loop over the renamed pairs has
\* ended as loop
compare_rename_ret(c, loop, pairs, cp, list_folded) ==
    IF loop.err # ""
    THEN WithRenamed(Raised(loop.err, loop.log), EmptyRenamed, EmptyRenamed, cp)
    ELSE WithRenamed(
            [c EXCEPT !.log = loop.log, !.folded = list_folded_ret(list_folded, cp)],
            [k \in {"!=", "=="} |->
                renamed_at(pairs, IF k = "!=" THEN loop.ne ELSE loop.eq, 1)],
            [k \in {"!=", "=="} |->
                renamed_at(pairs, IF k = "!=" THEN loop.ne ELSE loop.eq, 2)],
            cp)

\* compare_rename once compare has returned (or raised) c on the kept paths
compare_rename_loop(fa, fb, c, pairs, cp, args) ==
    IF c.err # "" THEN WithRenamed(c, EmptyRenamed, EmptyRenamed, cp)
    ELSE compare_rename_ret(c,
            equal_loop(fa, fb, pairs, 1, equal_opts(args),
                       [EmptyLoop EXCEPT !.log = c.log]),
            pairs, cp, args.list_folded)

\* compare_rename once the rename list is resolved to pairs
compare_rename_kept(fa, fb, pairs, cp, args) ==
    {compare_rename_loop(fa, fb, c, pairs, cp, args) :
        c \in compare(fa, fb,
                      <<keep(cp.paths_a.items, renamed_side(pairs, 1))>>,
                      <<keep(cp.paths_b.items, renamed_side(pairs, 2))>>,
                      [args EXCEPT !.only_datasets = FALSE])}

\* compare_rename once _compare_paths has returned cp.
compare_rename_body(fa, fb, rename, cp, args) ==
    IF cp.err # ""
    THEN {WithRenamed(Raised(cp.err, <<>>), EmptyRenamed, EmptyRenamed, NoPaths)}
    ELSE IF ~args.regex /\ ~renamed_paths_present(rename, cp.paths_a.items, cp.paths_b.items)
    THEN {WithRenamed(Raised("OSError", <<>>), EmptyRenamed, EmptyRenamed, cp)}
    ELSE compare_rename_kept(fa, fb,
            rename_pairs(rename, cp.paths_a.items, cp.paths_b.items, args.regex),
            cp, args)

\* compare_rename(a, b, rename, paths_a, paths_b, ...): its possible outcomes.
\* rename is << >> (None) or <<list of pairs>>.  With None compare is called
\* without only_datasets, which is then its default False.
compare_rename(fa, fb, rename, paths_a, paths_b, args) ==
    IF rename = <<>>
    THEN {NothingRenamed(c) :
            c \in compare(fa, fb, paths_a, paths_b, [args EXCEPT !.only_datasets = FALSE])}
    ELSE UNION {compare_rename_body(fa, fb, rename[1], cp, args)
                : cp \in _compare_paths(fa, fb, paths_a, paths_b,
                            IF args.only_datasets THEN FALSE ELSE args.attrs,
                            args.max_depth, args.fold)}

-----------------------------------------------------------------------------
(* _create_groups and copy                                                 *)

\* What a call that changes a file leaves: the file, and the exception that
\* ended the call ("" when it returned).
Done(file, err) == [file |-> file, err |-> err]

\* ``[abspath(path) for path in paths]``
abspaths(paths) == [i \in 1..Len(paths) |-> abspath(paths[i])]

\* ``[join(root, path) for path in paths]``
prefixed(root, paths) == [i \in 1..Len(paths) |-> join(<<abspath(root), paths[i]>>, FALSE)]

RECURSIVE masked(_, _, _)
\* paths[mask] of a numpy array from place i on: the entries whose mask is set
masked(paths, mask, i) ==
    IF i > Len(paths) THEN <<>>
    ELSE (IF mask[i] THEN <<paths[i]>> ELSE <<>>) \o masked(paths, mask, i + 1)

RECURSIVE path_and_ancestors(_)
\* A path and the groups above it, "/" left out
path_and_ancestors(path) ==
    IF path = Root THEN {} ELSE {path} \cup path_and_ancestors(dirname(path))

\* file.create_group(path): the group and the missing groups above it are
\* created; h5py raises ValueError when the name is taken or lies beneath a
\* Dataset.
create_group(file, path) ==
    IF path \in DOMAIN file \/ \E q \in path_and_ancestors(path) : isDataset(file, q)
    THEN Done(file, "ValueError")
    ELSE Done([q \in DOMAIN file \cup path_and_ancestors(path) |->
                  IF q \in DOMAIN file THEN file[q] ELSE Group(NoAttrs)], "")

\* ``sorted(groups, key=lambda group: (group.count("/"), group))`` on the
\* distinct groups (a group met again exists already)
RECURSIVE sorted_groups(_)
sorted_groups(S) ==
    IF S = {} THEN <<>>
    ELSE <<CHOOSE g \in S : \A h \in S :
                h = g \/ count(g) < count(h) \/ (count(g) = count(h) /\ StrLess(g, h))>>
         \o sorted_groups(S \ {CHOOSE g \in S : \A h \in S :
                h = g \/ count(g) < count(h) \/ (count(g) = count(h) /\ StrLess(g, h))})

RECURSIVE create_groups_loop(_, _, _)
\* ``for group in groups: if not exists(file, group): file.create_group(group)``
create_groups_loop(done, groups, i) ==
    IF i > Len(groups) \/ done.err # "" THEN done
    ELSE create_groups_loop(IF exists(done.file, groups[i]) THEN done
                            ELSE create_group(done.file, groups[i]),
                            groups, i + 1)

\* _create_groups(file, paths)
_create_groups(file, paths) ==
    create_groups_loop(Done(file, ""),
                       sorted_groups({dirname(paths[i]) : i \in 1..Len(paths)} \ {Root}), 1)

\* The nodes h5py's Group.copy takes from source_path: the node and, of a
\* group, all beneath it (its immediate members only with shallow).
copied_nodes(source, source_path, shallow) ==
    {p \in DOMAIN source :
        \/ p = source_path
        \/ startswith(p, source_path \o <<SLASH>>)
             /\ (shallow => dirname(p) = source_path)}

\* source.copy(source_path, dest[group], name=...): the nodes are added to
\* dest beneath dest_path, with their attributes unless without_attrs.
h5copy(source, dest, source_path, dest_path, shallow, without_attrs) ==
    [q \in DOMAIN dest \cup {dest_path \o SubSeq(p, Len(source_path) + 1, Len(p))
                                : p \in copied_nodes(source, source_path, shallow)} |->
        IF q \in DOMAIN dest THEN dest[q]
        ELSE IF without_attrs
        THEN [source[source_path \o SubSeq(q, Len(dest_path) + 1, Len(q))]
                EXCEPT !.attrs = NoAttrs]
        ELSE source[source_path \o SubSeq(q, Len(dest_path) + 1, Len(q))]]

RECURSIVE copy_loop(_, _, _, _, _, _)
\* ``for source_path, dest_path in zip(source_paths[keep], dest_paths[keep])``
\* from the i-th pair on.  dest[group] of a Dataset is no Group, which
\* h5py's copy refuses with TypeError.
copy_loop(source, done, source_paths, dest_paths, i, args) ==
    IF i > Len(source_paths) \/ done.err # "" THEN done
    ELSE copy_loop(source,
            IF args.shallow /\ isGroup(source, source_paths[i]) THEN done
            ELSE IF exists(done.file, dest_paths[i]) THEN done
            ELSE IF isDataset(done.file, dirname(dest_paths[i]))
            THEN Done(done.file, "TypeError")
            ELSE Done(h5copy(source, done.file, source_paths[i], dest_paths[i],
                             args.shallow, args.without_attrs), ""),
            source_paths, dest_paths, i + 1, args)

\* ``for key in source_group.attrs: dest_group.attrs[key] = ...`` on the node
\* at dest_path
set_attrs(file, dest_path, attrs) ==
    [file EXCEPT ![dest_path].attrs =
        [key \in DOMAIN @ \cup DOMAIN attrs |->
            IF key \in DOMAIN attrs THEN attrs[key] ELSE @[key]]]

\* One pass of the loop over the listed groups, created being what
\* dest.create_group left when the group was not there
group_attrs_pass(created, dest_path, attrs) ==
    IF created.err # "" THEN created
    ELSE Done(set_attrs(created.file, dest_path, attrs), "")

RECURSIVE copy_group_attrs(_, _, _, _, _)
\* ``for source_path, dest_path in zip(source_paths[isgroup], dest_paths[isgroup])``
\* from the i-th pair on
copy_group_attrs(source, done, source_paths, dest_paths, i) ==
    IF i > Len(source_paths) \/ done.err # "" THEN done
    ELSE copy_group_attrs(source,
            IF ~isGroup(source, source_paths[i]) THEN done
            ELSE group_attrs_pass(
                    IF exists(done.file, dest_paths[i]) THEN done
                    ELSE create_group(done.file, dest_paths[i]),
                    dest_paths[i], source[source_paths[i]].attrs),
            source_paths, dest_paths, i + 1)

\* copy from _create_groups on
copy_created(source, created, source_paths, dest_paths, args) ==
    copy_group_attrs(source,
        copy_loop(source, created, source_paths, dest_paths, 1, args),
        source_paths, dest_paths, 1)

\* copy from its existence checks on, were the destination not looked at
copy_checked_source_only(source, dest, source_paths, dest_paths, args) ==
    IF \E i \in 1..Len(source_paths) : ~exists(source, source_paths[i])
    THEN Done(dest, "OSError")
    ELSE IF Len(source_paths) = 0 THEN Done(dest, "")
    ELSE copy_created(source, _create_groups(dest, dest_paths),
                      source_paths, dest_paths, args)

\* copy from its two existence checks on
copy_checked(source, dest, source_paths, dest_paths, args) ==
    IF \E i \in 1..Len(source_paths) : ~exists(source, source_paths[i])
    THEN Done(dest, "OSError")
    ELSE IF \E i \in 1..Len(dest_paths) : exists(dest, dest_paths[i])
    THEN Done(dest, "OSError")
    ELSE IF Len(source_paths) = 0 THEN Done(dest, "")
    ELSE copy_created(source, _create_groups(dest, dest_paths),
                      source_paths, dest_paths, args)

\* ``if root:`` and ``if source_root:``
copy_prefixed(source, dest, source_paths, dest_paths, args) ==
    copy_checked(source, dest,
        IF args.source_root # <<>> THEN prefixed(args.source_root[1], source_paths)
        ELSE source_paths,
        IF args.root # <<>> THEN prefixed(args.root[1], dest_paths) ELSE dest_paths,
        args)

\* ``keep = [i in source for i in source_paths]``: the test is made before
\* source_root is joined to the paths
skip_keep(source, source_paths) ==
    [i \in 1..Len(source_paths) |-> exists(source, source_paths[i])]

\* ``if skip:``
copy_skipped(source, dest, source_paths, dest_paths, args) ==
    IF args.skip
    THEN copy_prefixed(source, dest,
            masked(source_paths, skip_keep(source, source_paths), 1),
            masked(dest_paths, skip_keep(source, source_paths), 1),
            args)
    ELSE copy_prefixed(source, dest, source_paths, dest_paths, args)

\* copy(source, dest, source_paths, dest_paths, root, source_root, skip,
\* shallow, without_attrs): dest after the call and the exception raised.
\* dest_paths is << >> (None) or <<list>>; ``not dest_paths`` holds of None
\* and of the empty list.
copy(source, dest, source_paths, dest_paths, args) ==
    IF Len(source_paths) = 0 THEN Done(dest, "")
    ELSE copy_skipped(source, dest, abspaths(source_paths),
            IF dest_paths = <<>> \/ dest_paths[1] = <<>> THEN abspaths(source_paths)
            ELSE abspaths(dest_paths[1]),
            args)

-----------------------------------------------------------------------------
(* ExtendableList                                                          *)

\* What a method of the list leaves: the object, and the exception that ended
\* the call ("" when it returned).
Left(self, err) == [self |-> self, err |-> err]

\* The value HDF5 fills new entries of a dataset with.
FillValue == 0

Min(m, n) == IF m < n THEN m ELSE n

\* dset.resize((n,)): the entries kept up to n, new ones filled
resize(dset, n) == [j \in 1..n |-> IF j <= Len(dset) THEN dset[j] ELSE FillValue]

\* The 0-based positions h5py selects for slice(start, stop, step) on a
\* dataset of a length: slice.indices(length) of a slice without negative
\* numbers, None being << >>.
slice_start(start, length) == IF start = <<>> THEN 0 ELSE Min(start[1], length)
slice_stop(stop, length) == IF stop = <<>> THEN length ELSE Min(stop[1], length)

slice_positions(lo, hi, step) == {p \in lo..(hi - 1) : (p - lo) % step = 0}

\* dset[lo:hi:step] = data of h5py: nothing is done for an empty selection,
\* data of the length of the selection is stored in order, data of length 1
\* is stored at every position, and other data is refused with TypeError
\* ("Can't broadcast").  Yields the dataset and the exception.
h5write(dset, lo, hi, step, data) ==
    IF slice_positions(lo, hi, step) = {} THEN Left(dset, "")
    ELSE IF Len(data) = Cardinality(slice_positions(lo, hi, step))
    THEN Left([j \in 1..Len(dset) |->
                 IF j - 1 \in slice_positions(lo, hi, step)
                 THEN data[((j - 1 - lo) \div step) + 1] ELSE dset[j]], "")
    ELSE IF Len(data) = 1
    THEN Left([j \in 1..Len(dset) |->
                 IF j - 1 \in slice_positions(lo, hi, step) THEN data[1] ELSE dset[j]], "")
    ELSE Left(dset, "TypeError")

\* dset[slice(start, stop, step)] = data
dset_setslice(dset, start, stop, step, data) ==
    h5write(dset, slice_start(start, Len(dset)), slice_stop(stop, Len(dset)), step, data)

\* dset[-n:] = data: -0 is 0, so for n = 0 the slice is the whole dataset
dset_settail(dset, n, data) ==
    dset_setslice(dset, <<IF n = 0 THEN 0 ELSE Len(dset) - n>>, <<>>, 1, data)

\* ExtendableList.__init__ on a dataset with the content dset; np.empty
\* leaves the buffer with whatever the memory held.
ExtendableList(dset, buffer, memory) ==
    [buffer |-> buffer,
     data |-> IF buffer = <<>> THEN <<>> ELSE [j \in 1..buffer[1] |-> memory],
     i |-> 0,
     dset |-> dset]

\* flush()
flush(self) ==
    IF self.i > 0
    THEN [self EXCEPT
            !.dset = dset_settail(resize(self.dset, Len(self.dset) + self.i), self.i,
                                  SubSeq(self.data, 1, self.i)).self,
            !.i = 0]
    ELSE self

\* _flush_full_buffer()
_flush_full_buffer(self) == IF <<self.i>> = self.buffer THEN flush(self) ELSE self

\* The end of setitem on a slice: ``self.dset[index] = data``
setitem_write(self, write) == Left([self EXCEPT !.dset = write.self], write.err)

\* setitem on a slice from ``if size is not None`` on, self being flushed
setitem_sized(self, newsize, start, stop, step, data) ==
    IF newsize # <<>> /\ ~(Len(self.dset) <= newsize[1]) THEN Left(self, "AssertionError")
    ELSE setitem_write(self,
            dset_setslice(IF newsize # <<>> /\ Len(self.dset) < newsize[1]
                          THEN resize(self.dset, newsize[1]) ELSE self.dset,
                          start, stop, step, data))

\* ``if start > 0 and stop > 0: size = stop``
size_of(start, stop) == IF start > 0 /\ stop > 0 THEN <<stop>> ELSE <<>>

\* The size setitem gives the dataset for a slice, << >> being None; step
\* is the number used for a step of None.
slice_size(start, stop, step, n) ==
    IF start = <<>> /\ stop = <<>> THEN <<n * step>>
    ELSE IF stop = <<>> THEN size_of(start[1], start[1] + n * step)
    ELSE IF start = <<>> THEN size_of(stop[1] - n * step, stop[1])
    ELSE size_of(start[1], stop[1])

\* ``if step is None: step = 1``
step_of(step) == IF step = <<>> THEN 1 ELSE step[1]

\* setitem past ``self.flush()``
setitem_flushed(self, index, data) ==
    IF index.t = "slice"
    THEN setitem_sized(self,
            slice_size(index.start, index.stop, step_of(index.step), Len(data)),
            index.start, index.stop, step_of(index.step), data)
    ELSE IF index.t = "ellipsis"
    THEN (IF ~(Len(self.dset) <= Len(data)) THEN Left(self, "AssertionError")
          ELSE setitem_write(self,
                  dset_setslice(resize(self.dset, Len(data)), <<>>, <<>>, 1, data)))
    ELSE IF index.t # "int" THEN Left(self, "AssertionError")
    ELSE Left([self EXCEPT !.dset =
                  [resize(self.dset, IF index.i >= Len(self.dset) THEN index.i + 1
                                     ELSE Len(self.dset))
                      EXCEPT ![index.i + 1] = data]], "")

\* setitem(index, data): data is an array for a slice and for Ellipsis, and a
\* number for a scalar index.
setitem(self, index, data) == setitem_flushed(flush(self), index, data)

\* append of a list or an array past ``self.flush()``
append_list(self, data) ==
    setitem_write(self,
        dset_settail(resize(self.dset, Len(self.dset) + Len(data)), Len(data), data))

\* append of a scalar to the buffer
append_buffered(self, data) ==
    Left(_flush_full_buffer([self EXCEPT !.data[self.i + 1] = data.elems, !.i = self.i + 1]),
         "")

\* append(data): data is [t |-> "list", elems |-> ...] for a list or an array
\* and [t |-> "scalar", elems |-> ...] for a number.
append(self, data) ==
    IF data.t = "list" THEN append_list(flush(self), data.elems)
    ELSE IF self.buffer = <<>>
    THEN setitem(self, [t |-> "int", i |-> Len(self.dset)], data.elems)
    ELSE append_buffered(self, data)

-----------------------------------------------------------------------------
(* The files and the arguments of the model                                *)

P_a == <<SLASH, "a">>
P_ax == <<SLASH, "a", SLASH, "x">>
P_b == <<SLASH, "b">>
P_ab == <<SLASH, "a", SLASH, "b">>
P_abc == <<SLASH, "a", SLASH, "b", SLASH, "c">>
K == <<"k">>

\* The largest max_depth a call is made with.
MaxDepthArg == 1

EmptyFile == [p \in {Root} |-> Group(NoAttrs)]

\* The well-formed files whose nodes lie on the paths DOMAIN choices, a node
\* at path p being one of choices[p].
FilesOver(choices) ==
    {f \in UNION {[D \cup {Root} -> UNION {choices[p] : p \in D} \cup {Group(NoAttrs)}]
                    : D \in SUBSET DOMAIN choices} :
        /\ WellFormed(f)
        /\ f[Root] = Group(NoAttrs)
        /\ \A p \in DOMAIN f \ {Root} : f[p] \in choices[p]}

\* The nodes a path of the compared files may hold.
CompareChoices ==
    [p \in {P_a, P_ax, P_b} |->
        IF p = P_a THEN {Group(NoAttrs), Dataset(IntVal(1), NoAttrs)}
        ELSE IF p = P_ax THEN {Dataset(IntVal(1), NoAttrs), Dataset(FloatVal(1), NoAttrs)}
        ELSE {Group(Attrs(K, IntVal(1))), Group(Attrs(K, IntVal(2))),
              Group(Attrs(K, Str(<<"a">>))), Dataset(IntVal(2), NoAttrs)}]

CompareFiles == FilesOver(CompareChoices)

Depths == {<<>>} \cup {<<d>> : d \in 0..MaxDepthArg}

CompareArgs ==
    [attrs : BOOLEAN, matching_dtype : BOOLEAN, shallow : BOOLEAN, close : BOOLEAN,
     only_datasets : {FALSE}, list_folded : {FALSE}, regex : {FALSE},
     max_depth : Depths, fold : {<<>>, <<P_a>>, <<P_a, P_b>>}]

\* The pattern /(a): the path /a with a capture group in it
P_a_group == <<SLASH, "(", "a", ")">>

\* The rename lists compare_rename is called with: None, the empty list, every
\* single pair, two pairs that share a path, and a pattern with a group.
RenamePairs == {P_a, P_ax, P_b} \X {P_a, P_ax, P_b}

RenameLists ==
    {<<>>, << <<>> >>} \cup {<< <<pair>> >> : pair \in RenamePairs}
        \cup {<< <<pair, <<pair[1], P_b>> >> >> : pair \in {P_ax} \X {P_a, P_ax}}
        \cup {<< << <<P_a_group, P_b>> >> >>}

RenameArgs ==
    [attrs : BOOLEAN, matching_dtype : {FALSE}, shallow : BOOLEAN, close : {FALSE},
     only_datasets : BOOLEAN, list_folded : {FALSE}, regex : BOOLEAN,
     max_depth : {<<>>}, fold : {<<>>}]

NoCall == [op |-> "none"]
NoRet == WithRenamed(Raised("", <<>>), EmptyRenamed, EmptyRenamed, NoPaths)

-----------------------------------------------------------------------------
(* The compared files: one call of compare or compare_rename on two files  *)

Init ==
    /\ a \in CompareFiles
    /\ b \in CompareFiles
    /\ call = NoCall
    /\ ret = NoRet

Compare ==
    /\ call = NoCall
    /\ \E args \in CompareArgs :
         /\ call' = [op |-> "compare", args |-> args, rename |-> <<>>]
         /\ ret' \in {NothingRenamed(c) : c \in compare(a, b, <<>>, <<>>, args)}
    /\ UNCHANGED <<a, b>>

CompareRename ==
    /\ call = NoCall
    /\ \E args \in RenameArgs, rename \in RenameLists :
         /\ call' = [op |-> "compare_rename", args |-> args, rename |-> rename]
         /\ ret' \in compare_rename(a, b, rename, <<>>, <<>>, args)
    /\ UNCHANGED <<a, b>>

Next == Compare \/ CompareRename

Spec == Init /\ [][Next]_vars

-----------------------------------------------------------------------------
(* The listed file: one call of getdatasets, getgroups or getdatapaths     *)

\* The largest max_depth a listing is made with.
MaxDepthList == 3

\* /ab: a sibling of /a whose name starts with the name of /a
P_a_sibling == <<SLASH, "a", "b">>

\* The nodes a path of the listed file may hold.
ListChoices ==
    [p \in {P_a, P_ab, P_abc, P_b, P_a_sibling} |->
        IF p = P_a_sibling THEN {Group(Attrs(K, IntVal(1)))}
        ELSE {Group(NoAttrs), Group(Attrs(K, IntVal(1))), Dataset(IntVal(1), NoAttrs)}]

ListFiles == FilesOver(ListChoices)

\* fold_symbol: the default "/..." and a shorter one
Dots == <<SLASH, ".", ".", ".">>

ListArgs ==
    [root : {Root, P_a, P_ab},
     max_depth : {<<>>} \cup {<<d>> : d \in 0..MaxDepthList},
     fold : {<<>>, <<P_a>>, <<P_ab>>, <<P_b>>, <<P_a, P_b>>},
     fold_symbol : {Dots, <<SLASH, ".">>}]

InitList ==
    /\ a \in ListFiles
    /\ b = EmptyFile
    /\ call = NoCall
    /\ ret = Yield(<<>>, "")

GetDatasets ==
    /\ call = NoCall
    /\ \E args \in ListArgs :
         /\ call' = [op |-> "getdatasets", args |-> args, has_attrs |-> FALSE]
         /\ ret' = getdatasets(a, args.root, args.max_depth, args.fold, args.fold_symbol)
    /\ UNCHANGED <<a, b>>

GetGroups ==
    /\ call = NoCall
    /\ \E args \in ListArgs, has_attrs \in BOOLEAN :
         /\ call' = [op |-> "getgroups", args |-> args, has_attrs |-> has_attrs]
         /\ ret' = getgroups(a, args.root, has_attrs, args.max_depth, args.fold,
                             args.fold_symbol)
    /\ UNCHANGED <<a, b>>

GetDataPaths ==
    /\ call = NoCall
    /\ \E args \in ListArgs :
         /\ call' = [op |-> "getdatapaths", args |-> args, has_attrs |-> TRUE]
         /\ ret' = getdatapaths(a, args.root, args.max_depth, args.fold, args.fold_symbol)
    /\ UNCHANGED <<a, b>>

NextList == GetDatasets \/ GetGroups \/ GetDataPaths

SpecList == InitList /\ [][NextList]_vars

-----------------------------------------------------------------------------
(* The compared nodes: one call of _equal_value, _equal, equal or compare  *)
(* on two files that hold one node each, at the same path                  *)

M == <<"m">>

\* The values an attribute may hold: h5py gives a str for a string attribute
\* and a numpy scalar otherwise.
AttrValues == {IntVal(1), IntVal(2), FloatVal(1), Str(<<"a">>), Str(<<"b">>)}

\* The attributes a node may carry, over the two names k and m.
AttrSets ==
    {NoAttrs, [n \in {M} |-> IntVal(1)], [n \in {K, M} |-> IntVal(1)]}
        \cup {Attrs(K, v) : v \in AttrValues}

\* The bodies a dataset may hold: 1 and 2 as int, 1 as float, a float within
\* numpy's tolerance of 1, True, and two arrays of the same numbers.
Bodies ==
    {IntVal(1), IntVal(2), FloatVal(1), Scalar("float", 1000000001),
     Scalar("bool", 1000000000),
     Array("int", <<1000000000, 2000000000>>),
     Array("float", <<1000000000, 2000000000>>)}

EqualNodes ==
    {Group(attrs) : attrs \in AttrSets}
        \cup {Dataset(body, attrs) : body \in Bodies, attrs \in AttrSets}

\* The file that holds the one node at /a.
FileOf(node) == [p \in {Root, P_a} |-> IF p = Root THEN Group(NoAttrs) ELSE node]

\* The values a node holds: those of its attributes and, of a dataset, the
\* dataset itself.
ValuesOf(node) ==
    {node.attrs[key] : key \in DOMAIN node.attrs}
        \cup (IF node.kind = "Dataset" THEN {node.value} ELSE {})

EqualOpts == [attrs : BOOLEAN, matching_dtype : BOOLEAN, shallow : BOOLEAN, close : BOOLEAN]

NodeArgs ==
    [attrs : BOOLEAN, matching_dtype : BOOLEAN, shallow : BOOLEAN, close : BOOLEAN,
     only_datasets : {FALSE}, list_folded : {FALSE}, regex : {FALSE},
     max_depth : {<<>>}, fold : {<<>>}]

Verdict(v) == [verdict |-> v]

InitEqual ==
    /\ a \in {FileOf(node) : node \in EqualNodes}
    /\ b \in {FileOf(node) : node \in EqualNodes}
    /\ call = NoCall
    /\ ret = Verdict("")

EqualValue ==
    /\ call = NoCall
    /\ \E va \in ValuesOf(a[P_a]), vb \in ValuesOf(b[P_a]), close \in BOOLEAN :
         /\ call' = [op |-> "_equal_value", a |-> va, b |-> vb, close |-> close]
         /\ ret' = Verdict(_equal_value(va, vb, close))
    /\ UNCHANGED <<a, b>>

EqualNodes_ ==
    /\ call = NoCall
    /\ \E opts \in EqualOpts :
         /\ call' = [op |-> "_equal", args |-> opts]
         /\ ret' = Verdict(_equal(a[P_a], b[P_a], opts.attrs, opts.matching_dtype,
                                  opts.shallow, opts.close))
    /\ UNCHANGED <<a, b>>

Equal ==
    /\ call = NoCall
    /\ \E opts \in EqualOpts :
         /\ call' = [op |-> "equal", args |-> opts]
         /\ ret' = Verdict(equal(a, b, P_a, <<>>, opts))
    /\ UNCHANGED <<a, b>>

CompareNodes ==
    /\ call = NoCall
    /\ \E args \in NodeArgs :
         /\ call' = [op |-> "compare", args |-> args]
         /\ ret' \in {NothingRenamed(c) : c \in compare(a, b, <<>>, <<>>, args)}
    /\ UNCHANGED <<a, b>>

NextEqual == EqualValue \/ EqualNodes_ \/ Equal \/ CompareNodes

SpecEqual == InitEqual /\ [][NextEqual]_vars

-----------------------------------------------------------------------------
(* compare_allow: one call on a dictionary that compare returned           *)
(* A dictionary holds references to its lists; the lists themselves are in *)
(* a heap, so that two dictionaries may share them.                        *)

\* An argument that may be a str or a list of str
AsStr(s) == [type |-> "str", val |-> s]
AsList(l) == [type |-> "list", val |-> l]

\* ``if isinstance(x, str): x = [x]``
as_list(arg) == IF arg.type = "str" THEN <<arg.val>> ELSE arg.val

\* ``if root is not None: paths = [join(root, path, root=True) for path in paths]``
allow_prefixed(paths, root) ==
    IF root = <<>> THEN paths
    ELSE [i \in 1..Len(paths) |-> join(<<root[1], paths[i]>>, TRUE)]

\* dict.copy(): a new dictionary that refers to the same lists
dict_copy(d) == d

\* The lists a dictionary refers to, as the heap has them
deref(d, heap) == [k \in DOMAIN d |-> heap[d[k]]]

RECURSIVE allow_paths(_, _, _)
\* ``for path in paths: if path in ret[key]: ret[key].remove(path)`` on the
\* list of one key, from the i-th path on
allow_paths(lst, paths, i) ==
    IF i > Len(paths) THEN lst
    ELSE allow_paths(IF paths[i] \in Range(lst) THEN list_remove(lst, paths[i]) ELSE lst,
                     paths, i + 1)

RECURSIVE allow_keys(_, _, _, _, _)
\* ``for key in keys`` from the i-th key on: the heap as the loop leaves it
allow_keys(heap, ret_, keys_, paths, i) ==
    IF i > Len(keys_) THEN heap
    ELSE allow_keys([heap EXCEPT ![ret_[keys_[i]]] = allow_paths(@, paths, 1)],
                    ret_, keys_, paths, i + 1)

\* compare_allow(comparison, paths, keys, root): the dictionary returned and
\* the heap after the call
compare_allow(heap, comparison, paths, keys_, root) ==
    [ret |-> dict_copy(comparison),
     heap |-> allow_keys(heap, dict_copy(comparison), as_list(keys_),
                         allow_prefixed(as_list(paths), root), 1)]

\* The lists of a dictionary of the model.
AllowLists == {<<>>, <<P_a>>, <<P_ax>>, <<P_a, P_b>>}

Comparisons == [Keys -> AllowLists]

\* The dictionary object: each key refers to the list stored under its name.
Refs == [k \in Keys |-> k]

AllowArgs ==
    [paths : {AsList(<<>>), AsList(<<P_a>>), AsList(<<P_b, P_a>>), AsStr(P_a),
              AsList(<< <<"x">> >>)},
     keys : {AsList(<<"->", "<-", "!=">>), AsList(<<"==">>), AsStr("!=")},
     root : {<<>>, <<P_a>>}]

InitAllow ==
    /\ a \in Comparisons
    /\ b = EmptyFile
    /\ call = NoCall
    /\ ret = EmptyResult

\* a is the dictionary passed as comparison, read again after the call.
CompareAllow ==
    /\ call = NoCall
    /\ \E args \in AllowArgs :
         /\ call' = [op |-> "compare_allow", args |-> args, comparison |-> a]
         /\ a' = deref(Refs, compare_allow(a, Refs, args.paths, args.keys, args.root).heap)
         /\ ret' = deref(compare_allow(a, Refs, args.paths, args.keys, args.root).ret,
                         compare_allow(a, Refs, args.paths, args.keys, args.root).heap)
    /\ UNCHANGED b

NextAllow == CompareAllow

SpecAllow == InitAllow /\ [][NextAllow]_vars

-----------------------------------------------------------------------------
(* The copied files: one call of copy from a source into a destination     *)

P_ay == <<SLASH, "a", SLASH, "y">>
P_bx == <<SLASH, "b", SLASH, "x">>

\* The nodes a path of the source may hold.
CopyChoices ==
    [p \in {P_a, P_ax, P_ay, P_b} |->
        IF p = P_a THEN {Group(NoAttrs), Group(Attrs(K, IntVal(1))),
                         Dataset(IntVal(1), NoAttrs)}
        ELSE IF p = P_ax THEN {Dataset(IntVal(1), NoAttrs),
                               Dataset(IntVal(1), Attrs(K, IntVal(2)))}
        ELSE IF p = P_ay THEN {Dataset(Str(<<"a">>), NoAttrs)}
        ELSE {Dataset(IntVal(2), NoAttrs), Group(Attrs(K, IntVal(1)))}]

SourceFiles == FilesOver(CopyChoices)

\* The destinations: a new file, and files that hold a node already.
DestFiles ==
    {EmptyFile,
     [p \in {Root, P_b} |-> IF p = Root THEN Group(NoAttrs) ELSE Dataset(FloatVal(1), NoAttrs)],
     [p \in {Root, P_a} |-> IF p = Root THEN Group(NoAttrs) ELSE Group(Attrs(<<"m">>, IntVal(1)))],
     [p \in {Root, P_a, P_ax} |-> IF p = P_ax THEN Dataset(FloatVal(1), NoAttrs)
                                   ELSE Group(NoAttrs)]}

\* The path lists of a call: source_paths with dest_paths None, in both
\* orders and with a relative path, and lists with renamed destinations.
CopyPaths ==
    {[source_paths |-> sp, dest_paths |-> <<>>] :
        sp \in {<<>>, <<P_a>>, <<P_ax>>, <<P_b>>, <<P_a, P_ax>>, <<P_ax, P_a>>,
                <<P_a, P_b>>, <<P_ax, P_b>>, << <<"x">> >>, <<P_ax, <<"y">> >>}}
    \cup {[source_paths |-> <<P_ax>>, dest_paths |-> << <<P_b>> >>],
          [source_paths |-> <<P_a>>, dest_paths |-> << <<P_b>> >>],
          [source_paths |-> <<P_ax, P_b>>, dest_paths |-> << <<P_bx, P_b>> >>]}

CopyArgs ==
    [root : {<<>>, <<P_b>>}, source_root : {<<>>, <<P_a>>},
     skip : BOOLEAN, shallow : BOOLEAN, without_attrs : BOOLEAN]

InitCopy ==
    /\ a \in SourceFiles
    /\ b \in DestFiles
    /\ call = NoCall
    /\ ret = Done(EmptyFile, "")

\* a is the source and b the destination, which the call changes; the call
\* keeps the destination as it was.
Copy ==
    /\ call = NoCall
    /\ \E paths \in CopyPaths, args \in CopyArgs :
         /\ call' = [op |-> "copy", args |-> args, source_paths |-> paths.source_paths,
                     dest_paths |-> paths.dest_paths, dest |-> b]
         /\ ret' = copy(a, b, paths.source_paths, paths.dest_paths, args)
         /\ b' = copy(a, b, paths.source_paths, paths.dest_paths, args).file
    /\ UNCHANGED a

NextCopy == Copy

SpecCopy == InitCopy /\ [][NextCopy]_vars

-----------------------------------------------------------------------------
(* The extendable list: calls of append, setitem and flush in any order    *)

\* The largest size the dataset and the buffer together reach.
MaxSize == 3

\* The largest buffer a list is opened with.
MaxBuffer == 2

Numbers == {1, 2}

\* The arrays handed to append and setitem.
Arrays == {<<>>, <<1>>, <<2>>, <<1, 2>>, <<2, 1, 2>>}

\* buffer=None and the buffer sizes
Buffers == {<<>>} \cup {<<n>> : n \in 1..MaxBuffer}

\* The content of the dataset the list is opened on, << >> for a new one
Contents == {<<>>, <<1>>, <<2, 1>>}

AppendData ==
    {[t |-> "scalar", elems |-> v] : v \in Numbers}
        \cup {[t |-> "list", elems |-> l] : l \in Arrays}

\* None or a number
Optional(S) == {<<>>} \cup {<<n>> : n \in S}

Indices ==
    [t : {"slice"}, start : Optional(0..2), stop : Optional({2, MaxSize}),
     step : Optional({2})]
        \cup [t : {"int"}, i : 0..(MaxSize - 1)]
        \cup {[t |-> "ellipsis"], [t |-> "list"]}

\* What the calls so far were handed: the content the list was opened on,
\* whether only append and flush were called, and if so the elements
\* appended in call order.
History(prior, appended, plain) == [prior |-> prior, appended |-> appended, plain |-> plain]

NoErr == [err |-> ""]

InitExt ==
    /\ a \in {ExtendableList(dset, buffer, memory) :
                dset \in Contents, buffer \in Buffers, memory \in {FillValue, 2}}
    /\ b \in {History(a.dset, <<>>, TRUE)}
    /\ call = NoCall
    /\ ret = NoErr

\* a is the list object and b the history of the calls; a call of setitem
\* keeps the content of the dataset it met, the buffer written.  A list that
\* was left is not used again.
AppendTo ==
    /\ call.op # "exit"
    /\ \E data \in AppendData :
         /\ Len(append(a, data).self.dset) + append(a, data).self.i <= MaxSize
         /\ call' = [op |-> "append", data |-> data]
         /\ a' = append(a, data).self
         /\ ret' = [err |-> append(a, data).err]
         /\ b' = [b EXCEPT !.appended =
                     IF ~b.plain THEN <<>>
                     ELSE @ \o (IF data.t = "list" THEN data.elems ELSE <<data.elems>>)]

SetItem ==
    /\ call.op # "exit"
    /\ \E index \in Indices :
       \E data \in (IF index.t = "int" THEN Numbers ELSE Arrays \ {<<>>, <<2>>}) :
         /\ Len(setitem(a, index, data).self.dset) <= MaxSize
         /\ call' = [op |-> "setitem", index |-> index, data |-> data,
                     dset |-> flush(a).dset]
         /\ a' = setitem(a, index, data).self
         /\ ret' = [err |-> setitem(a, index, data).err]
         /\ b' = History(b.prior, <<>>, FALSE)

Flush ==
    /\ call.op # "exit"
    /\ call' = [op |-> "flush"]
    /\ a' = flush(a)
    /\ ret' = NoErr
    /\ UNCHANGED b

\* __exit__
Exit ==
    /\ call.op # "exit"
    /\ call' = [op |-> "exit"]
    /\ a' = flush(a)
    /\ ret' = NoErr
    /\ UNCHANGED b

NextExt == AppendTo \/ SetItem \/ Flush \/ Exit

SpecExt == InitExt /\ [][NextExt]_vars

-----------------------------------------------------------------------------
(* Properties of compare and compare_rename, stated on Spec                *)

\* The paths of the four lists of the primary result.
Listed == UNION {Range(ret.dict[k]) : k \in Keys}

NoDuplicates(seq) == Cardinality(Range(seq)) = Len(seq)

\* A fold marker: a path that ends on the symbol of _compare_paths.
IsMarker(p) == endswith(p, Symbol)

\* p lies beneath the group g.
Beneath(p, g) == p # g /\ startswith(p, IF g = Root THEN g ELSE g \o <<SLASH>>)

\* The non-empty groups of a file.
NonEmptyGroups(file) ==
    {g \in DOMAIN file \ {Root} : isGroup(file, g) /\ \E p \in DOMAIN file : Beneath(p, g)}

CompareReturned == call.op = "compare" /\ ret.err = ""

\* The same call without folding returns: whatever it compares is comparable.
ReturnsUnfolded ==
    \A c \in compare(a, b, <<>>, <<>>, [call.args EXCEPT !.fold = <<>>, !.max_depth = <<>>]) :
        c.err = ""

\* C1: whenever compare returns, its four lists are pairwise disjoint and
\* duplicate-free, and together they hold exactly the paths of the two
\* selected lists that are not folded.
C1_Partition ==
    CompareReturned =>
        /\ \A k1, k2 \in Keys :
              k1 # k2 => Range(ret.dict[k1]) \cap Range(ret.dict[k2]) = {}
        /\ \A k \in Keys : NoDuplicates(ret.dict[k])
        /\ Listed = {p \in Range(ret.sel_a) \cup Range(ret.sel_b) : ~IsMarker(p)}

\* The pairs a returned compare_rename matched.
Matched == rename_pairs(call.rename[1], ret.paths_a, ret.paths_b, call.args.regex)

RenameReturned == call.op = "compare_rename" /\ call.rename # <<>> /\ ret.err = ""

\* pa is listed in the second result and pb in the third, at the same place,
\* under "==" when equal holds of them and under "!=" otherwise.
ListedAsRenamed(pa, pb) ==
    LET k == IF equal(a, b, pa, <<pb>>, call.args) = "True" THEN "==" ELSE "!="
    IN  \E j \in 1..Len(ret.ret_a[k]) : ret.ret_a[k][j] = pa /\ ret.ret_b[k][j] = pb

\* C2 as stated: no path of a matched pair is in any list of the primary
\* result, and the pair is listed in the second and third result.
C2_NowhereInPrimary ==
    RenameReturned =>
        \A i \in 1..Len(Matched) :
            /\ Matched[i][1] \notin Listed
            /\ Matched[i][2] \notin Listed
            /\ ListedAsRenamed(Matched[i][1], Matched[i][2])

\* C2: of a matched pair (pa, pb), pa is not reported as a path of a (under
\* "->", "!=" or "==") and pb not as a path of b (under "<-", "!=" or "==");
\* pa is under "<-" exactly when b holds an unrenamed path of that name, pb
\* under "->" exactly when a does; the pair is listed in the second and third
\* result under "==" when equal and under "!=" otherwise.
C2_RenamedApart ==
    RenameReturned =>
        \A i \in 1..Len(Matched) :
            LET pa == Matched[i][1]
                pb == Matched[i][2]
                rename_a == {Matched[j][1] : j \in 1..Len(Matched)}
                rename_b == {Matched[j][2] : j \in 1..Len(Matched)}
            IN  /\ pa \notin Range(ret.dict["->"]) \cup Range(ret.dict["!="])
                                \cup Range(ret.dict["=="])
                /\ pb \notin Range(ret.dict["<-"]) \cup Range(ret.dict["!="])
                                \cup Range(ret.dict["=="])
                /\ pa \in Range(ret.dict["<-"]) <=> pa \in Range(ret.paths_b) \ rename_b
                /\ pb \in Range(ret.dict["->"]) <=> pb \in Range(ret.paths_a) \ rename_a
                /\ ListedAsRenamed(pa, pb)

\* A pair was renamed apart while the other file keeps a path of its name.
C2_Witness ==
    /\ RenameReturned
    /\ \E i \in 1..Len(Matched) :
          /\ Matched[i][1] # Matched[i][2]
          /\ Matched[i][1] \in Range(ret.dict["<-"])
          /\ Matched[i][1] \in Range(ret.ret_a["=="])

\* A literal pair of the call is absent from the path list of its file.
RenamedPathMissing ==
    /\ call.op = "compare_rename"
    /\ call.rename # <<>>
    /\ ~call.args.regex
    /\ \E i \in 1..Len(call.rename[1]) :
          \/ call.rename[1][i][1] \notin Range(ret.paths_a)
          \/ call.rename[1][i][2] \notin Range(ret.paths_b)

\* C3: a literal pair with a path absent from its file's list makes
\* compare_rename raise OSError before equal is called on any node, and
\* nothing is returned.
C3_MissingPathRaisesFirst ==
    RenamedPathMissing =>
        /\ ret.err = "OSError"
        /\ ret.log = <<>>
        /\ ret.dict = EmptyResult
        /\ ret.ret_a = EmptyRenamed
        /\ ret.ret_b = EmptyRenamed

\* The second of two pairs is the missing one, and its files do hold the path.
C3_Witness ==
    /\ RenamedPathMissing
    /\ Len(call.rename[1]) = 2
    /\ call.rename[1][1][1] \in Range(ret.paths_a)
    /\ call.rename[1][1][2] \in Range(ret.paths_b)
    /\ exists(a, call.rename[1][2][1])
    /\ exists(b, call.rename[1][2][2])

\* Every entry of the fold list is a group of a or of b, and a Dataset of
\* neither.
FoldListsGroups ==
    \A i \in 1..Len(call.args.fold) :
        LET f == call.args.fold[i]
        IN  /\ exists(a, f) \/ exists(b, f)
            /\ exists(a, f) => isGroup(a, f)
            /\ exists(b, f) => isGroup(b, f)

\* C4: compare with a fold list of groups and no max_depth returns, lists no
\* fold marker, no folded group and no path beneath one, and never calls equal
\* on a fold marker.
C4_FoldListHidden ==
    (call.op = "compare" /\ call.args.fold # <<>> /\ call.args.max_depth = <<>>
        /\ FoldListsGroups /\ ReturnsUnfolded) =>
        /\ ret.err = ""
        /\ \A p \in Listed :
              /\ ~IsMarker(p)
              /\ \A i \in 1..Len(call.args.fold) :
                    p # call.args.fold[i] /\ ~Beneath(p, call.args.fold[i])
        /\ \A i \in 1..Len(ret.log) : ~IsMarker(ret.log[i][1])

\* C5: compare with max_depth >= 1 and no fold list returns, and neither
\* lists nor value-compares a group folded by the depth limit or its marker.
C5_DepthFoldHidden ==
    (call.op = "compare" /\ call.args.fold = <<>> /\ truthy_depth(call.args.max_depth)
        /\ ReturnsUnfolded) =>
        /\ ret.err = ""
        /\ \A p \in Listed :
              /\ ~IsMarker(p)
              /\ ~(p \in NonEmptyGroups(a) \cup NonEmptyGroups(b)
                     /\ count(p) >= call.args.max_depth[1])
        /\ \A i \in 1..Len(ret.log) : ~IsMarker(ret.log[i][1])

SelfCompared ==
    /\ call.op = "compare"
    /\ a = b
    /\ call.args.fold = <<>>
    /\ call.args.max_depth = <<>>

HasStrAttribute(file) ==
    \E p \in DOMAIN file : \E key \in DOMAIN file[p].attrs : file[p].attrs[key].py = "str"

-----------------------------------------------------------------------------
(* Properties of getdatasets and getgroups, stated on SpecList             *)

ListRoot == abspath(call.args.root)

\* The groups beneath the root of the call.
GroupsBelowRoot == {g \in DOMAIN a : isGroup(a, g) /\ Beneath(g, ListRoot)}

HasMembers(g) == \E p \in DOMAIN a : Beneath(p, g)

Marker(g) == g \o call.args.fold_symbol

FoldListed(g) == g \in Range(normalise_fold(ListRoot, call.args.fold))

\* From "/" the depth of a path is its number of components.
DepthLimited(g) == truthy_depth(call.args.max_depth) /\ count(g) >= call.args.max_depth[1]

\* The traversal reaches g: no group above it is folded.
Reached(g) ==
    \A h \in GroupsBelowRoot : Beneath(g, h) => ~(FoldListed(h) \/ DepthLimited(h))

NotDescended(g) == \A p \in Range(ret.out) : Beneath(p, g) => p = Marker(g)

\* getdatasets from a root for which the depth limit, if any, counts from "/".
DatasetsListed ==
    /\ call.op = "getdatasets"
    /\ ret.err = ""
    /\ truthy_depth(call.args.max_depth) => ListRoot = Root

RelativeDepth(g) == count(g) - (IF ListRoot = Root THEN 0 ELSE count(ListRoot))

\* Some marker hides g: its own or that of a group above it.
FoldedAway(g) ==
    \E h \in GroupsBelowRoot : (h = g \/ Beneath(g, h)) /\ Marker(h) \in Range(ret.out)

\* The groups getgroups lists when it folds nothing.
GroupsSelected ==
    {g \in GroupsBelowRoot : call.has_attrs => a[g].attrs # NoAttrs}

\* C10: with max_depth alone, getdatasets and getgroups fold a non-empty
\* group exactly when its depth beyond the root is >= max_depth: such a group
\* is hidden by a marker, and no group of smaller depth has a marker.
C10_DepthIsRelative ==
    (call.op \in {"getdatasets", "getgroups"} /\ ret.err = ""
        /\ call.args.fold = <<>> /\ call.args.max_depth # <<>>) =>
        \A g \in GroupsBelowRoot :
            LET nonempty == IF call.op = "getdatasets" THEN HasMembers(g)
                            ELSE \E l \in GroupsSelected : Beneath(l, g)
            IN  nonempty =>
                  IF RelativeDepth(g) >= call.args.max_depth[1]
                  THEN FoldedAway(g)
                  ELSE Marker(g) \notin Range(ret.out)

\* getdatasets with a depth limit and no fold list has returned.
DepthListed ==
    /\ call.op = "getdatasets"
    /\ ret.err = ""
    /\ call.args.fold = <<>>
    /\ call.args.max_depth # <<>>

\* What getdatasets emits for the same file, root and symbol under the limit d.
EmittedUnder(d) ==
    Range(getdatasets(a, call.args.root, <<d>>, <<>>, call.args.fold_symbol).out)

\* C11: every path getdatasets(max_depth=d) emits that is not a fold marker
\* is also emitted by getdatasets(max_depth=d') for every d' > d, from d = 0 on.
C11_DepthMonotone ==
    DepthListed =>
        \A d2 \in (call.args.max_depth[1] + 1)..(MaxDepthList + 1) :
            \A p \in Range(ret.out) :
                ~endswith(p, call.args.fold_symbol) => p \in EmittedUnder(d2)

-----------------------------------------------------------------------------
(* Properties of _equal_value, _equal and equal, stated on SpecEqual       *)

NodeA == a[P_a]
NodeB == b[P_a]

\* C12: with attrs=True, _equal returns False whenever the attribute names of
\* the two nodes differ, whichever node has the extra name, for every
\* shallow, matching_dtype and close.
C12_AttributeNamesMatch ==
    (call.op = "_equal" /\ call.args.attrs
        /\ DOMAIN NodeA.attrs # DOMAIN NodeB.attrs) =>
        ret.verdict = "False"

BothDatasets == NodeA.kind = "Dataset" /\ NodeB.kind = "Dataset"

\* C13: with matching_dtype=True, equal reports two datasets whose element
\* types differ as unequal, for every shallow and attrs, also with
\* shallow=True and attrs=True on nodes that carry attributes.
C13_DtypeAlwaysChecked ==
    (call.op = "equal" /\ call.args.matching_dtype /\ BothDatasets
        /\ NodeA.value.dtype # NodeB.value.dtype) =>
        ret.verdict = "False"

OneIsDataset == NodeA.kind # NodeB.kind

\* C14: on a Dataset and a Group, equal raises OSError ("Not a Dataset") for
\* every option setting and attribute content, and compare, when it applies
\* equal to the pair, raises it too: the path is neither under "!=" nor "==".
C14_MixedKindsRaise ==
    /\ (call.op = "equal" /\ OneIsDataset) => ret.verdict = "OSError"
    /\ (call.op = "compare" /\ OneIsDataset /\ <<P_a, P_a>> \in Range(ret.log)) =>
            /\ ret.err = "OSError"
            /\ P_a \notin Range(ret.dict["!="]) \cup Range(ret.dict["=="])

ValueCompared == call.op = "_equal_value"

IsNumber(v) == v.py = "ndarray" /\ v.dtype \in {"float", "int", "bool"}

SameShape == size(call.a) = size(call.b) /\ call.a.shape = call.b.shape

\* Every element of a is within numpy's tolerances of that of b.
AllClose == \A i \in 1..Len(call.a.data) : isclose(call.a.data[i], call.b.data[i])

\* C15 as stated: for a float a and a float, integer or bool b of the same
\* size and shape, _equal_value gives the same verdict with close=True as with
\* close=False.
C15_CloseIrrelevantForFloats ==
    (ValueCompared /\ call.a.py = "ndarray" /\ call.a.dtype = "float"
        /\ IsNumber(call.b) /\ SameShape) =>
        ret.verdict = _equal_value(call.a, call.b, ~call.close)

\* C15: for a float a and a b of the same size and shape, _equal_value is the
\* closeness of the elements when b is a float too, whatever close is; when b
\* is integer or bool it is that closeness with close=True and False with
\* close=False.
C15_CloseOnlyAcrossTypes ==
    (ValueCompared /\ call.a.py = "ndarray" /\ call.a.dtype = "float"
        /\ IsNumber(call.b) /\ SameShape) =>
        ret.verdict = IF call.b.dtype = "float" \/ call.close THEN Bool(AllClose)
                      ELSE "False"

\* The float 1.0 against the int 1 with close=False: unequal, and close to it.
C15_Witness ==
    /\ ValueCompared
    /\ call.a.dtype = "float" /\ call.b.dtype = "int" /\ SameShape
    /\ ~call.close
    /\ AllClose
    /\ ret.verdict = "False"

\* The two files hold an int and a float dataset of the same numbers.
IntAgainstFloat ==
    /\ BothDatasets
    /\ {NodeA.value.dtype, NodeB.value.dtype} = {"int", "float"}
    /\ NodeA.value.shape = NodeB.value.shape
    /\ NodeA.value.data = NodeB.value.data

\* C16: with close=False an integer a is equal to b exactly when b is an
\* integer of the same size and shape with equal elements; with close=True it
\* is the closeness of the elements; and compare with close=False and
\* matching_dtype=False lists an int and a float dataset of the same numbers
\* under "!=".
C16_IntegersExact ==
    /\ (ValueCompared /\ call.a.py = "ndarray" /\ call.a.dtype = "int" /\ ~call.close) =>
            /\ ret.verdict = "True" <=>
                  (call.b.py = "ndarray" /\ call.b.dtype = "int" /\ SameShape
                      /\ call.a.data = call.b.data)
            /\ call.b.py = "ndarray" => ret.verdict \in {"True", "False"}
    /\ (ValueCompared /\ call.a.py = "ndarray" /\ call.a.dtype = "int" /\ call.close
            /\ IsNumber(call.b) /\ SameShape) =>
            ret.verdict = Bool(AllClose)
    /\ (call.op = "compare" /\ IntAgainstFloat /\ ret.err = ""
            /\ ~call.args.close /\ ~call.args.matching_dtype /\ ~call.args.shallow) =>
            P_a \in Range(ret.dict["!="])

\* The int dataset 1 in a against the float dataset 1.0 in b is listed under
\* "!=" with attrs, matching_dtype, shallow and close all off.
C16_Witness ==
    /\ call.op = "compare"
    /\ IntAgainstFloat
    /\ NodeA.value.dtype = "int"
    /\ ~call.args.close /\ ~call.args.matching_dtype /\ ~call.args.shallow
    /\ ~call.args.attrs
    /\ ret.err = ""
    /\ ret.dict["!="] = <<P_a>>

\* C17: _equal_value of a str and a value that is no str returns False
\* without raising, whichever side holds the str, and of two str returns True
\* exactly when they are the same.
C17_StringsNeverRaise ==
    ValueCompared =>
        /\ (call.a.py = "str" /\ call.b.py = "str") =>
                ret.verdict = Bool(call.a = call.b)
        /\ ((call.a.py = "str") # (call.b.py = "str")) => ret.verdict = "False"

-----------------------------------------------------------------------------
(* A Dataset as the root of getdatasets, stated on SpecList                *)

\* C18: when root names a Dataset, getdatasets consumed to its end yields the
\* one path root and ends without error, for every max_depth and fold.
C18_DatasetRootYieldsItself ==
    (call.op = "getdatasets" /\ isDataset(a, ListRoot)) =>
        ret = Yield(<<ListRoot>>, "")

-----------------------------------------------------------------------------
(* Properties of compare_rename with regex and only_datasets, on Spec      *)

RegexRenamed == call.op = "compare_rename" /\ call.rename # <<>> /\ call.args.regex

\* The pairs listed in the second and third result.
PairsReported ==
    UNION {{<<ret.ret_a[k][j], ret.ret_b[k][j]>> : j \in 1..Len(ret.ret_a[k])}
            : k \in {"!=", "=="}}

\* p = u + s with u what the pattern matches at the start of p: the s.
SuffixAfter(pattern_a, p) == SubSeq(p, Len(re_literal(pattern_a)) + 1, Len(p))

\* The pairs (p, patternB + s) with patternB + s in b's list.
PairsExpected ==
    {pq \in Range(ret.paths_a) \X Range(ret.paths_b) :
        \E i \in 1..Len(call.rename[1]) :
            /\ startswith(pq[1], re_literal(call.rename[1][i][1]))
            /\ pq[2] = call.rename[1][i][2] \o SuffixAfter(call.rename[1][i][1], pq[1])}

\* C19: with regex=True an A-path p is paired with the B-path q exactly when,
\* for a pair (patternA, patternB), p = u + s with u matched by patternA at
\* the start of p and q = patternB + s is in b's list, also when patternA has
\* capture groups; a path that is not paired raises no error, is in neither
\* renamed result and stays in the ordinary comparison.
C19_RegexRewritesSuffix ==
    RegexRenamed =>
        /\ ret.err # "" => ret.log # <<>>
        /\ ret.err = "" =>
              /\ PairsReported = PairsExpected
              /\ \A p \in Range(ret.paths_a) :
                    (\A pq \in PairsExpected : pq[1] # p) =>
                        /\ p \in Listed
                        /\ p \notin Range(ret.ret_a["!="]) \cup Range(ret.ret_a["=="])

\* The paths the three dictionaries list as paths of a, and as paths of b.
ListedOfA ==
    Range(ret.dict["->"]) \cup Range(ret.dict["!="]) \cup Range(ret.dict["=="])
        \cup Range(ret.ret_a["!="]) \cup Range(ret.ret_a["=="])

ListedOfB ==
    Range(ret.dict["<-"]) \cup Range(ret.dict["!="]) \cup Range(ret.dict["=="])
        \cup Range(ret.ret_b["!="]) \cup Range(ret.ret_b["=="])

\* C20: compare_rename with only_datasets=True lists no group, with or
\* without attributes, in any list of its three dictionaries, with rename
\* None and with a list of pairs.
C20_OnlyDatasets ==
    (call.op = "compare_rename" /\ call.args.only_datasets /\ ret.err = "") =>
        /\ \A p \in ListedOfA : ~isGroup(a, p)
        /\ \A p \in ListedOfB : ~isGroup(b, p)

-----------------------------------------------------------------------------
(* Properties of getgroups with a fold list and of the paths getdatasets   *)
(* yields, stated on SpecList                                              *)

\* The fold list of the call as getdatasets and getgroups normalise it.
FoldEntries == Range(normalise_fold(ListRoot, call.args.fold))

\* g is a fold entry or lies beneath one, component-wise.
UnderFoldEntry(g) == \E f \in FoldEntries : g = f \/ Beneath(g, f)

\* C26: getgroups with a fold list replaces a qualifying group by the marker
\* of a fold entry exactly when the group is that entry or lies beneath it
\* component-wise; a sibling whose name starts with the same characters stays
\* bare; and no path is listed twice.
C26_FoldsByComponents ==
    (call.op = "getgroups" /\ ret.err = "" /\ call.args.fold # <<>>
        /\ call.args.max_depth = <<>>) =>
        /\ NoDuplicates(ret.out)
        /\ \A g \in GroupsSelected :
              IF UnderFoldEntry(g)
              THEN /\ g \notin Range(ret.out)
                   /\ \E f \in FoldEntries :
                         (g = f \/ Beneath(g, f)) /\ f \o call.args.fold_symbol \in Range(ret.out)
              ELSE g \in Range(ret.out)

\* A group of the file followed by the fold symbol of the call.
IsFoldMarker(p) == \E g \in DOMAIN a : isGroup(a, g) /\ p = Marker(g)

\* The depth of the tree: the largest number of components of a path in it.
TreeDepth ==
    IF DOMAIN a = {Root} THEN 0
    ELSE CHOOSE d \in 1..3 :
            /\ \E p \in DOMAIN a \ {Root} : count(p) = d
            /\ \A p \in DOMAIN a \ {Root} : count(p) <= d

Unlimited == getdatasets(a, call.args.root, <<>>, call.args.fold, call.args.fold_symbol)

EmptyAtLimit(g) ==
    /\ isGroup(a, g)
    /\ call.args.fold = <<>>
    /\ DepthLimited(g)
    /\ ~HasMembers(g)

-----------------------------------------------------------------------------
(* Properties of compare_allow, stated on SpecAllow                        *)

\* The paths the call allows, with the prefix when root is given.
AllowedPaths == Range(allow_prefixed(as_list(call.args.paths), call.args.root))

AllowedKeys == Range(as_list(call.args.keys))

\* C30: compare_allow returns a dictionary in which each listed path, with
\* the root prefix, is removed from the lists under the listed keys and all
\* else is as in the input; the dictionary passed in and its lists are as
\* before the call.
C30_AllowLeavesInput ==
    call.op = "compare_allow" =>
        /\ \A k \in Keys :
              ret[k] = IF k \in AllowedKeys
                       THEN SelectSeq(call.comparison[k], LAMBDA p : p \notin AllowedPaths)
                       ELSE call.comparison[k]
        /\ a = call.comparison

-----------------------------------------------------------------------------
(* Properties of copy, stated on SpecCopy                                  *)

\* copy was called and returned.
Copied == call.op = "copy" /\ ret.err = ""

Places == 1..Len(call.source_paths)

\* The path of the i-th listed entry in the source, with source_root joined.
SourcePathOf(i) ==
    IF call.args.source_root # <<>>
    THEN join(<<call.args.source_root[1], call.source_paths[i]>>, FALSE)
    ELSE abspath(call.source_paths[i])

\* The destination of the i-th listed entry, with root joined.
DestPathOf(i) ==
    IF call.args.root # <<>>
    THEN join(<<call.args.root[1],
                IF call.dest_paths = <<>> THEN call.source_paths[i]
                ELSE call.dest_paths[1][i]>>, FALSE)
    ELSE abspath(IF call.dest_paths = <<>> THEN call.source_paths[i]
                 ELSE call.dest_paths[1][i])

\* The options of equal with the attributes compared.
WithAttrs == [attrs |-> TRUE, matching_dtype |-> FALSE, shallow |-> FALSE, close |-> FALSE]

\* The destination held none of the destination paths before the call.
DestFree == \A i \in Places : DestPathOf(i) \notin DOMAIN call.dest

\* A destination of the list lies on or above another one.
DestNested ==
    \E i, j \in Places :
        i # j /\ (DestPathOf(i) = DestPathOf(j) \/ Beneath(DestPathOf(j), DestPathOf(i)))

PlainCopy == Copied /\ ~call.args.skip /\ ~call.args.without_attrs /\ DestFree

\* C21: after copy into a destination that held none of the destination
\* paths, with or without root, source_root and renamed dest_paths, every
\* listed path exists in dest at its destination and equal with the
\* attributes compared is True of it and its source.
C21_CopiedEqual ==
    PlainCopy =>
        \A i \in Places :
            /\ exists(b, DestPathOf(i))
            /\ equal(a, b, SourcePathOf(i), <<DestPathOf(i)>>, WithAttrs) = "True"

\* The options of equal with the values alone compared.
ValuesOnly == [attrs |-> FALSE, matching_dtype |-> FALSE, shallow |-> FALSE, close |-> FALSE]

\* The datasets of the source beneath the i-th listed entry.
DatasetsBeneath(i) ==
    {p \in DOMAIN a : isDataset(a, p) /\ Beneath(p, SourcePathOf(i))}

\* Where a node beneath the i-th listed entry belongs in dest.
DestOfMember(i, p) ==
    DestPathOf(i) \o SubSeq(p, Len(SourcePathOf(i)) + 1, Len(p))

\* C22: with shallow=False, after copy every dataset beneath a listed group
\* of the source exists in dest and equals its source, for every list of
\* paths in any order, a list naming a group and a path beneath it included.
C22_RecursiveCopy ==
    (Copied /\ ~call.args.shallow /\ ~call.args.skip) =>
        \A i \in Places : \A p \in DatasetsBeneath(i) :
            /\ exists(b, DestOfMember(i, p))
            /\ equal(a, b, p, <<DestOfMember(i, p)>>, ValuesOnly) = "True"

\* A listed source path is missing from the source.
SourceMissing == \E i \in Places : SourcePathOf(i) \notin DOMAIN a

\* C28: with skip=False, when a prefixed source path is missing from source
\* or a prefixed destination path exists in dest already, copy raises OSError
\* and dest is left as it was.
C28_ChecksBeforeWriting ==
    (call.op = "copy" /\ ~call.args.skip /\ (SourceMissing \/ ~DestFree)) =>
        ret.err = "OSError" /\ b = call.dest

\* A call refused for a destination that exists, while the sources are all
\* there and another destination lacks its group in dest.
C28_Witness ==
    /\ call.op = "copy" /\ ~call.args.skip
    /\ ~SourceMissing /\ ~DestFree
    /\ \E i \in Places : dirname(DestPathOf(i)) \notin DOMAIN call.dest
    /\ ret.err = "OSError" /\ b = call.dest

\* The destination holds no Dataset at or above a destination path.
DestClear ==
    \A i \in Places : \A q \in path_and_ancestors(DestPathOf(i)) : q \notin DOMAIN call.dest
                                                                   \/ isGroup(call.dest, q)

\* C29: with skip=True and source_root=R, copy returns without error, and
\* of the listed paths those are copied whose path joined to R exists in the
\* source, the others being skipped.
C29_SkipOnPrefixedPath ==
    (call.op = "copy" /\ call.args.skip /\ call.args.source_root # <<>>
        /\ DestFree /\ DestClear) =>
        /\ ret.err = ""
        /\ \A i \in Places :
             IF SourcePathOf(i) \in DOMAIN a
             THEN exists(b, DestPathOf(i))
                  /\ equal(a, b, SourcePathOf(i), <<DestPathOf(i)>>, ValuesOnly) = "True"
             ELSE DestPathOf(i) \notin DOMAIN b

-----------------------------------------------------------------------------
(* Properties of ExtendableList, stated on SpecExt                         *)

\* The number of elements in the buffer is below the buffer size.
BufferNotFull == a.buffer # <<>> => a.i < a.buffer[1]

\* C23: for every buffer size and every sequence of append calls of scalars
\* and of lists or arrays, each call returns, between calls the number of
\* buffered elements is below the buffer size, and after flush() or leaving
\* the context the dataset is its content before opening followed by the
\* appended elements in call order.
C23_AppendsInOrder ==
    /\ call.op = "append" => ret.err = "" /\ BufferNotFull
    /\ (call.op \in {"flush", "exit"} /\ b.plain) => a.dset = b.prior \o b.appended

\* setitem was called with a slice.
SliceSet == call.op = "setitem" /\ call.index.t = "slice"

SliceStep == IF call.index.step = <<>> THEN 1 ELSE call.index.step[1]

\* Where the slice begins, an omitted start being 0.
SliceBegin == IF call.index.start = <<>> THEN 0 ELSE call.index.start[1]

\* The end of the slice: the stop, or without one the start and the room
\* the data takes.
SliceEnd ==
    IF call.index.stop # <<>> THEN call.index.stop[1]
    ELSE SliceBegin + Len(call.data) * SliceStep

\* The 0-based positions of the slice, in order.
SlicePlaces == {p \in SliceBegin..(SliceEnd - 1) : (p - SliceBegin) % SliceStep = 0}

\* The data has one element for each position of the slice.
DataFits == SlicePlaces # {} /\ Len(call.data) = Cardinality(SlicePlaces)

\* The data is stored at the positions of the slice.
StoredAtSlice ==
    \A p \in SlicePlaces :
        p < Len(a.dset) /\ a.dset[p + 1] = call.data[((p - SliceBegin) \div SliceStep) + 1]

\* C24: setitem with a slice whose end is at or beyond the size of the
\* dataset, the stop given or implied by the data, the start given, 0 or
\* omitted, grows the dataset to that end and stores the data at the
\* positions of the slice; setitem with a scalar index i >= size grows the
\* dataset to i + 1 and stores the value at i.
C24_SetItemGrows ==
    /\ (SliceSet /\ DataFits /\ SliceEnd >= Len(call.dset)) =>
          ret.err = "" /\ Len(a.dset) = SliceEnd /\ StoredAtSlice
    /\ (call.op = "setitem" /\ call.index.t = "int" /\ call.index.i >= Len(call.dset)) =>
          ret.err = "" /\ Len(a.dset) = call.index.i + 1
              /\ a.dset[call.index.i + 1] = call.data

\* C25: setitem with a slice inside the dataset, 0 < start < stop < size,
\* overwrites the entries of the slice, leaves the size and the other
\* entries as they were, and does not raise.
C25_SetItemInside ==
    (SliceSet /\ DataFits /\ call.index.start # <<>> /\ call.index.stop # <<>>
        /\ 0 < SliceBegin /\ SliceBegin < SliceEnd /\ SliceEnd < Len(call.dset)) =>
        /\ ret.err = ""
        /\ Len(a.dset) = Len(call.dset)
        /\ StoredAtSlice
        /\ \A j \in 1..Len(call.dset) : j - 1 \notin SlicePlaces => a.dset[j] = call.dset[j]

=============================================================================
